---- MODULE Spec2Model ----
(***************************************************************************)
(* The Anthropic streaming client of llmite-ai/llms: GenerateStream, the   *)
(* SSE reader parseSSEStream and the event dispatcher processStreamEvent   *)
(* (src/anthropic/tools.go, lines 500-523 and 687-923).                    *)
(*                                                                         *)
(* Go strings are sequences of one-character strings, so that              *)
(* concatenation, length and the comparison with "{}" are the sequence     *)
(* operations.  A nil pointer, a nil error and a nil callback result are   *)
(* the value Nil.                                                          *)
(***************************************************************************)
EXTENDS Integers, Sequences, FiniteSets, TLC

\* Frames a live stream may deliver before the server closes it.
MaxEvents == 5

\* Fragments of one content block in a scripted stream.
MaxFrags == 3
\* Messages in one conversation handed to convertMessages.
MaxMessages == 3
\* Elements in the content array of a non-streaming response.
MaxBlocks == 3
\* Tools configured on a client.
MaxTools == 3
\* Lines in a response body that is read line by line.
MaxLines == 6
\* Chunks in the stream of an OpenAI call.
MaxChunks == 4

Nil == [nil |-> TRUE]

\* A non-nil pointer to value.
Ptr(value) == [value |-> value]

(***************************************************************************)
(* The provider-agnostic data model (src/llm.go).                          *)
(***************************************************************************)
RoleAssistant == "assistant"

TextPart(text) == [part |-> "TextPart", Text |-> text]

ToolCallPart(id, name, input) ==
    [part |-> "ToolCallPart", ID |-> id, Name |-> name, Input |-> input]

\* Raw is a pointer to the provider's message: only whether it is nil counts.
Response(id, parts, raw) ==
    [ID |-> id,
     Message |-> [Role |-> RoleAssistant, Parts |-> parts],
     Provider |-> "anthropic",
     Raw |-> IF raw = Nil THEN Nil ELSE [ptr |-> "message"]]

(***************************************************************************)
(* SSE frames.  The data of a frame is absent, malformed JSON, or a JSON   *)
(* object; a field the object lacks decodes to the zero value of its type. *)
(***************************************************************************)
NoData == [raw |-> "empty"]
BadJSON == [raw |-> "malformed"]
EmptyJSON == [raw |-> "json"]

Get(obj, field, zero) == IF field \in DOMAIN obj THEN obj[field] ELSE zero

StreamEvent(event, data) == [Event |-> event, Data |-> data]

\* json.RawMessage("{}")
EmptyObject == <<"{", "}">>

Envelope(id) ==
    [ID |-> id, StopReason |-> Nil, StopSequence |-> Nil,
     Usage |-> [InputTokens |-> 3, OutputTokens |-> 1]]

MessageStart(id) ==
    StreamEvent("message_start", [raw |-> "json", message |-> Envelope(id)])

BlockStart(block) ==
    StreamEvent("content_block_start", [raw |-> "json", content_block |-> block])

TextBlock == [type |-> "text"]
ToolUseBlock(id, name) == [type |-> "tool_use", id |-> id, name |-> name]
ThinkingBlock == [type |-> "thinking"]

BlockDelta(delta) ==
    StreamEvent("content_block_delta", [raw |-> "json", delta |-> delta])

TextDelta(text) == [type |-> "text_delta", text |-> text]
InputJSONDelta(json) == [type |-> "input_json_delta", partial_json |-> json]
ThinkingDelta == [type |-> "thinking_delta"]

BlockStop == StreamEvent("content_block_stop", EmptyJSON)

MessageDelta(stopReason, stopSequence, usage) ==
    StreamEvent("message_delta",
                [raw |-> "json",
                 delta |-> [stop_reason |-> stopReason, stop_sequence |-> stopSequence],
                 usage |-> usage])

\* The Usage a delta with only output_tokens decodes to.
DeltaUsage == [InputTokens |-> 0, OutputTokens |-> 7]

MessageStop == StreamEvent("message_stop", EmptyJSON)
Ping == StreamEvent("ping", EmptyJSON)

ErrorEvent(message) ==
    StreamEvent("error", [raw |-> "json", error |-> [message |-> message]])

(***************************************************************************)
(* Errors.                                                                 *)
(***************************************************************************)
Errorf(text) == [error |-> text]
StreamError(message) == [error |-> "stream error", message |-> message]
Wrap(text, err) == [error |-> text, cause |-> err]

(***************************************************************************)
(* processStreamEvent.  st holds the locals of parseSSEStream that the     *)
(* dispatcher receives by reference; ret is what the callback returns if   *)
(* it is invoked.  The outcome is the new locals, the two results of the   *)
(* function and the callback invocation made, if any.                      *)
(***************************************************************************)
Outcome(st, shouldContinue, err, call) ==
    [st |-> st, shouldContinue |-> shouldContinue, err |-> err, call |-> call]

Invocation(kind, response, err, ret) ==
    [kind |-> kind, response |-> response, err |-> err, ret |-> ret]

UnmarshalFails(data) == data.raw # "json"

OnMessageStart(data, st) ==
    IF UnmarshalFails(data)
    THEN Outcome(st, FALSE, Errorf("failed to unmarshal message_start"), Nil)
    ELSE LET message == Get(data, "message", Envelope(<<>>))
         IN  Outcome([st EXCEPT !.anthropicResponse = message,
                                !.responseID = message.ID],
                     TRUE, Nil, Nil)

OnContentBlockStart(data, st) ==
    IF UnmarshalFails(data)
    THEN Outcome(st, FALSE, Errorf("failed to unmarshal content_block_start"), Nil)
    ELSE LET block == Get(data, "content_block", [type |-> ""])
         IN  CASE block.type = "text" ->
                    Outcome([st EXCEPT !.currentTextBuilder = <<>>], TRUE, Nil, Nil)
               [] block.type = "tool_use" ->
                    Outcome([st EXCEPT !.currentToolCall =
                                ToolCallPart(Get(block, "id", <<>>),
                                             Get(block, "name", <<>>),
                                             EmptyObject)],
                            TRUE, Nil, Nil)
               [] OTHER -> Outcome(st, TRUE, Nil, Nil)

\* The snapshot handed to the callback after a text delta (lines 805-825).
Snapshot(st) ==
    LET currentParts ==
            IF Len(st.currentTextBuilder) > 0
            THEN Append(st.streamingParts, TextPart(st.currentTextBuilder))
            ELSE st.streamingParts
    IN  Response(st.responseID, currentParts, st.anthropicResponse)

\* Mutant: the delta replaces the buffer instead of being appended to it.
OnTextDelta_Overwrites(delta, fn, st, ret) ==
    LET st1 == [st EXCEPT !.currentTextBuilder = Get(delta, "text", <<>>)]
    IN  IF fn
        THEN Outcome(st1, ret, Nil, Invocation("snapshot", Snapshot(st1), Nil, ret))
        ELSE Outcome(st1, TRUE, Nil, Nil)

\* Mutant: the result of the callback is discarded.
OnTextDelta_IgnoresResult(delta, fn, st, ret) ==
    LET st1 == [st EXCEPT !.currentTextBuilder = @ \o Get(delta, "text", <<>>)]
    IN  IF fn
        THEN Outcome(st1, TRUE, Nil, Invocation("snapshot", Snapshot(st1), Nil, ret))
        ELSE Outcome(st1, TRUE, Nil, Nil)

OnTextDelta(delta, fn, st, ret) ==
    LET st1 == [st EXCEPT !.currentTextBuilder = @ \o Get(delta, "text", <<>>)]
    IN  IF fn
        THEN Outcome(st1, ret, Nil, Invocation("snapshot", Snapshot(st1), Nil, ret))
        ELSE Outcome(st1, TRUE, Nil, Nil)

OnInputJSONDelta(delta, st) ==
    IF st.currentToolCall # Nil
    THEN LET input == st.currentToolCall.Input
             currentInput == IF input = EmptyObject THEN <<>> ELSE input
         IN  Outcome([st EXCEPT !.currentToolCall.Input =
                          currentInput \o Get(delta, "partial_json", <<>>)],
                     TRUE, Nil, Nil)
    ELSE Outcome(st, TRUE, Nil, Nil)

OnContentBlockDelta(data, fn, st, ret) ==
    IF UnmarshalFails(data)
    THEN Outcome(st, FALSE, Errorf("failed to unmarshal content_block_delta"), Nil)
    ELSE LET delta == Get(data, "delta", [type |-> ""])
         IN  CASE delta.type = "text_delta" -> OnTextDelta(delta, fn, st, ret)
               [] delta.type = "input_json_delta" -> OnInputJSONDelta(delta, st)
               [] OTHER -> Outcome(st, TRUE, Nil, Nil)

\* Mutant: a finalized part is put in front of the finalized parts.
OnContentBlockStop_Prepends(data, st) ==
    IF UnmarshalFails(data)
    THEN Outcome(st, FALSE, Errorf("failed to unmarshal content_block_stop"), Nil)
    ELSE LET st1 == IF Len(st.currentTextBuilder) > 0
                    THEN [st EXCEPT !.streamingParts =
                                        <<TextPart(st.currentTextBuilder)>> \o @,
                                    !.currentTextBuilder = <<>>]
                    ELSE st
             st2 == IF st1.currentToolCall # Nil
                    THEN [st1 EXCEPT !.streamingParts = <<st1.currentToolCall>> \o @,
                                     !.currentToolCall = Nil]
                    ELSE st1
         IN  Outcome(st2, TRUE, Nil, Nil)

OnContentBlockStop(data, st) ==
    IF UnmarshalFails(data)
    THEN Outcome(st, FALSE, Errorf("failed to unmarshal content_block_stop"), Nil)
    ELSE LET st1 == IF Len(st.currentTextBuilder) > 0
                    THEN [st EXCEPT !.streamingParts =
                                        Append(@, TextPart(st.currentTextBuilder)),
                                    !.currentTextBuilder = <<>>]
                    ELSE st
             st2 == IF st1.currentToolCall # Nil
                    THEN [st1 EXCEPT !.streamingParts = Append(@, st1.currentToolCall),
                                     !.currentToolCall = Nil]
                    ELSE st1
         IN  Outcome(st2, TRUE, Nil, Nil)

\* Mutant: the envelope takes every field of the delta, the absent ones too.
OnMessageDelta_Replaces(data, st) ==
    IF UnmarshalFails(data)
    THEN Outcome(st, FALSE, Errorf("failed to unmarshal message_delta"), Nil)
    ELSE IF st.anthropicResponse = Nil
    THEN Outcome(st, TRUE, Nil, Nil)
    ELSE LET delta == Get(data, "delta", [stop_reason |-> Nil, stop_sequence |-> Nil])
             usage == Get(data, "usage", Nil)
         IN  Outcome([st EXCEPT !.anthropicResponse.StopReason = delta.stop_reason,
                                !.anthropicResponse.StopSequence = delta.stop_sequence,
                                !.anthropicResponse.Usage =
                                    IF usage # Nil THEN usage.value ELSE @],
                     TRUE, Nil, Nil)

OnMessageDelta(data, st) ==
    IF UnmarshalFails(data)
    THEN Outcome(st, FALSE, Errorf("failed to unmarshal message_delta"), Nil)
    ELSE IF st.anthropicResponse = Nil
    THEN Outcome(st, TRUE, Nil, Nil)
    ELSE LET delta == Get(data, "delta", [stop_reason |-> Nil, stop_sequence |-> Nil])
             usage == Get(data, "usage", Nil)
             r1 == IF delta.stop_reason # Nil
                   THEN [st.anthropicResponse EXCEPT !.StopReason = delta.stop_reason]
                   ELSE st.anthropicResponse
             r2 == IF delta.stop_sequence # Nil
                   THEN [r1 EXCEPT !.StopSequence = delta.stop_sequence]
                   ELSE r1
             r3 == IF usage # Nil THEN [r2 EXCEPT !.Usage = usage.value] ELSE r2
         IN  Outcome([st EXCEPT !.anthropicResponse = r3], TRUE, Nil, Nil)

\* Mutant: message_stop does not notify the callback.
OnMessageStop_Silent(fn, st, ret) == Outcome(st, TRUE, Nil, Nil)

\* Mutant: message_stop ends the scanning loop.
OnMessageStop_Terminates(fn, st, ret) ==
    IF fn
    THEN Outcome(st, FALSE, Nil,
                 Invocation("final",
                            Response(st.responseID, st.streamingParts,
                                     st.anthropicResponse),
                            Nil, ret))
    ELSE Outcome(st, FALSE, Nil, Nil)

\* The result of the final callback is discarded (line 901).
OnMessageStop(fn, st, ret) ==
    IF fn
    THEN Outcome(st, TRUE, Nil,
                 Invocation("final",
                            Response(st.responseID, st.streamingParts,
                                     st.anthropicResponse),
                            Nil, ret))
    ELSE Outcome(st, TRUE, Nil, Nil)

\* Mutant: the stream goes on when the callback accepts the error.
OnError_HonoursCallback(data, fn, st, ret) ==
    IF UnmarshalFails(data)
    THEN Outcome(st, FALSE, Errorf("failed to unmarshal error event"), Nil)
    ELSE LET err == StreamError(Get(data, "error", [message |-> <<>>]).message)
         IN  IF fn /\ ret
             THEN Outcome(st, TRUE, Nil, Invocation("error", Nil, err, ret))
             ELSE Outcome(st, FALSE, err,
                          IF fn THEN Invocation("error", Nil, err, ret) ELSE Nil)

\* The result of the error callback is discarded (line 914).
OnError(data, fn, st, ret) ==
    IF UnmarshalFails(data)
    THEN Outcome(st, FALSE, Errorf("failed to unmarshal error event"), Nil)
    ELSE LET err == StreamError(Get(data, "error", [message |-> <<>>]).message)
         IN  Outcome(st, FALSE, err,
                     IF fn THEN Invocation("error", Nil, err, ret) ELSE Nil)

\* Mutant: an unknown event type is skipped.
OnUnknown_Ignored(event, st) == Outcome(st, TRUE, Nil, Nil)

OnUnknown(event, st) ==
    Outcome(st, FALSE, [error |-> "unknown stream event type", event |-> event.Event], Nil)

processStreamEvent(event, fn, st, ret) ==
    CASE event.Event = "message_start" -> OnMessageStart(event.Data, st)
      [] event.Event = "content_block_start" -> OnContentBlockStart(event.Data, st)
      [] event.Event = "content_block_delta" -> OnContentBlockDelta(event.Data, fn, st, ret)
      [] event.Event = "content_block_stop" -> OnContentBlockStop(event.Data, st)
      [] event.Event = "message_delta" -> OnMessageDelta(event.Data, st)
      [] event.Event = "message_stop" -> OnMessageStop(fn, st, ret)
      [] event.Event = "ping" -> Outcome(st, TRUE, Nil, Nil)
      [] event.Event = "error" -> OnError(event.Data, fn, st, ret)
      [] OTHER -> OnUnknown(event, st)

(***************************************************************************)
(* State.                                                                  *)
(***************************************************************************)
VARIABLES
    pc,                  \* "call": GenerateStream entered; "scan": in the loop
                         \* of parseSSEStream; "returned": the call is over
    fn,                  \* TRUE iff the StreamFunc passed to the call is not nil
    live,                \* TRUE: the server decides each frame as it sends it;
                         \* FALSE: the response body is the sequence stream
    stream,              \* the scripted response body: frames, or a JSON document
    pos,                 \* frames scanned so far
    ctxDone,             \* ctx.Done() is closed
    bodyClosed,          \* response.Body.Close() has run
    anthropicResponse,   \* locals of parseSSEStream (lines 690-695)
    streamingParts,
    currentTextBuilder,
    currentToolCall,
    responseID,
    message,             \* the anthropic.Message the SDK-based call accumulates
    result,              \* what GenerateStream returned: [response, err]
    exit,                \* the way the call ended, "" while it runs
    lastFrame,           \* the frame scanned last, Nil before the first
    seenStart,           \* a message_start has been dispatched
    ncalls,              \* callback invocations so far
    lastCall,            \* the last callback invocation, Nil before the first
    refused,             \* some callback invocation returned false
    notified,            \* final and error notifications so far
    client,              \* the configuration fields of the Client
    currentEvent,        \* the StreamEvent parseSSEStream builds line by line
    dispatched,          \* the events handed to processStreamEvent so far
    toolCalls,           \* toolCalls, the map of the OpenAI GenerateStream
    calls,               \* the calls running concurrently on the client
    messages,            \* the []Message argument of Generate
    request,             \* what convertMessages returned: [system, messages, err]
    responseBody,        \* the body of the non-streaming response
    streamOut            \* out, the Response a chunk-based GenerateStream accumulates

vars == <<pc, fn, live, stream, pos, ctxDone, bodyClosed, anthropicResponse,
          streamingParts, currentTextBuilder, currentToolCall, responseID,
          message, result, exit, lastFrame, seenStart, ncalls, lastCall, refused, notified,
          client,
          currentEvent, dispatched, toolCalls, calls, messages, request, responseBody, streamOut>>

locals == [anthropicResponse |-> anthropicResponse,
           streamingParts |-> streamingParts,
           currentTextBuilder |-> currentTextBuilder,
           currentToolCall |-> currentToolCall,
           responseID |-> responseID]

(***************************************************************************)
(* What a server may send.                                                 *)
(***************************************************************************)
Ids == {<<"m", "1">>}
Texts == {<<>>, <<"a">>, <<"b">>}
Fragments == {<<>>, <<"{">>, <<"{", "}">>}
ToolUse == ToolUseBlock(<<"t", "1">>, <<"f">>)
Overloaded == <<"o", "v", "e", "r", "l", "o", "a", "d", "e", "d">>

Frames ==
    {MessageStart(id) : id \in Ids}
    \cup {BlockStart(TextBlock), BlockStart(ToolUse), BlockStart(ThinkingBlock)}
    \cup {BlockDelta(TextDelta(t)) : t \in Texts}
    \cup {BlockDelta(InputJSONDelta(j)) : j \in Fragments}
    \cup {BlockDelta(ThinkingDelta), BlockStop, MessageStop, Ping}
    \cup {MessageDelta(Ptr("end_turn"), Nil, Nil),
          MessageDelta(Nil, Ptr("stop"), Ptr(DeltaUsage))}
    \cup {ErrorEvent(Overloaded),
          StreamEvent("completion", EmptyJSON),
          StreamEvent("content_block_delta", BadJSON),
          StreamEvent("message_stop", BadJSON),
          StreamEvent("error", BadJSON),
          StreamEvent("completion", NoData),
          StreamEvent("", EmptyJSON)}

NextFrames ==
    IF live
    THEN IF pos < MaxEvents THEN Frames ELSE {}
    ELSE IF pos < Len(stream) THEN {stream[pos + 1]} ELSE {}

(***************************************************************************)
(* parseSSEStream after its loop (lines 736-755) and the return of         *)
(* GenerateStream (lines 517-522).                                         *)
(***************************************************************************)
Returned(response, err) == [response |-> response, err |-> err]

\* Mutant: the call returns the snapshot with the open text block.
AfterLoop_ReturnsSnapshot(st) ==
    IF st.anthropicResponse = Nil
    THEN Returned(Nil, Errorf("no message received in stream"))
    ELSE Returned(Snapshot(st), Nil)

\* Mutant: the missing message_start is not detected.
AfterLoop_NoNilCheck(st) ==
    Returned(Response(st.responseID, st.streamingParts, st.anthropicResponse), Nil)

AfterLoop(st) ==
    IF st.anthropicResponse = Nil
    THEN Returned(Nil, Errorf("no message received in stream"))
    ELSE Returned(Response(st.responseID, st.streamingParts, st.anthropicResponse), Nil)

GenerateStreamReturn(parsed) ==
    IF parsed.err # Nil
    THEN Returned(Nil, Wrap("anthropic: failed to parse stream", parsed.err))
    ELSE Returned(parsed.response, Nil)

Dispatched(event) == event.Event # "" /\ event.Data # NoData

(***************************************************************************)
(* Initial states.                                                         *)
(***************************************************************************)
\* The fields a constructed Client holds.
NewClient ==
    [Model |-> "claude", MaxTokens |-> 1024, Tools |-> <<>>,
     baseURL |-> "https://api.anthropic.com"]

InitCall ==
    /\ pc = "call"
    /\ fn \in BOOLEAN
    /\ pos = 0
    /\ ctxDone = FALSE
    /\ bodyClosed = FALSE
    /\ anthropicResponse = Nil
    /\ streamingParts = <<>>
    /\ currentTextBuilder = <<>>
    /\ currentToolCall = Nil
    /\ responseID = <<>>
    /\ message = [ID |-> <<>>, Content |-> <<>>]
    /\ result = Nil
    /\ exit = ""
    /\ lastFrame = Nil
    /\ seenStart = FALSE
    /\ ncalls = 0
    /\ lastCall = Nil
    /\ refused = FALSE
    /\ notified = 0

\* No concurrent calls, no non-streaming call and no chunk-based stream.
InitRest ==
    /\ client = NewClient
    /\ currentEvent = Nil
    /\ dispatched = <<>>
    /\ toolCalls = Nil
    /\ calls = <<>>
    /\ messages = <<>>
    /\ request = Nil
    /\ responseBody = Nil
    /\ streamOut = Nil

Init ==
    /\ InitCall
    /\ InitRest
    /\ live = TRUE
    /\ stream = <<>>

(***************************************************************************)
(* GenerateStream before the stream is read (lines 500-514).               *)
(***************************************************************************)
unchangedScan ==
    UNCHANGED <<fn, live, stream, pos, ctxDone, anthropicResponse, streamingParts,
                currentTextBuilder, currentToolCall, responseID, message, lastFrame,
                seenStart, ncalls, lastCall, refused, notified, client,
                currentEvent, dispatched, toolCalls, calls, messages,
                request, responseBody, streamOut>>

BuildRequestFails ==
    /\ pc = "call"
    /\ pc' = "returned"
    /\ exit' = "build"
    /\ result' = Returned(Nil, Errorf("anthropic: failed to convert messages"))
    /\ UNCHANGED bodyClosed
    /\ unchangedScan

DoFails ==
    /\ pc = "call"
    /\ pc' = "returned"
    /\ exit' = "do"
    /\ result' = Returned(Nil, Errorf("anthropic: request failed"))
    /\ UNCHANGED bodyClosed
    /\ unchangedScan

UnexpectedStatus ==
    /\ pc = "call"
    /\ pc' = "returned"
    /\ exit' = "status"
    /\ bodyClosed' = TRUE
    /\ result' = Returned(Nil, Errorf("anthropic: unexpected status code"))
    /\ unchangedScan

OpenStream ==
    /\ pc = "call"
    /\ pc' = "scan"
    /\ UNCHANGED <<bodyClosed, result, exit>>
    /\ unchangedScan

(***************************************************************************)
(* The loop of parseSSEStream (lines 697-734), one frame at a time: the    *)
(* event: line, the data: line and the blank line that flushes them.       *)
(***************************************************************************)
Return(parsed, how) ==
    /\ pc' = "returned"
    /\ exit' = how
    /\ bodyClosed' = TRUE
    /\ result' = GenerateStreamReturn(parsed)

Record(call) ==
    IF call = Nil
    THEN UNCHANGED <<ncalls, lastCall, refused, notified>>
    ELSE /\ ncalls' = ncalls + 1
         /\ lastCall' = call
         /\ refused' = (refused \/ ~call.ret)
         /\ notified' = IF call.kind = "snapshot" THEN notified ELSE notified + 1

Store(st) ==
    /\ anthropicResponse' = st.anthropicResponse
    /\ streamingParts' = st.streamingParts
    /\ currentTextBuilder' = st.currentTextBuilder
    /\ currentToolCall' = st.currentToolCall
    /\ responseID' = st.responseID

\* Mutant: the context is never polled.
Cancelled_NeverPolled == FALSE

\* The select on ctx.Done() after each scanned line (lines 701-705).
Cancelled == ctxDone

ScanFrame ==
    /\ pc = "scan"
    /\ ~Cancelled
    /\ \E event \in NextFrames, ret \in BOOLEAN :
          /\ pos' = pos + 1
          /\ lastFrame' = event
          /\ UNCHANGED <<fn, live, stream, ctxDone, message, client,
                         currentEvent, dispatched, toolCalls, calls, messages,
                         request, responseBody, streamOut>>
          /\ IF ~Dispatched(event)
             THEN UNCHANGED <<pc, bodyClosed, result, exit, anthropicResponse,
                              streamingParts, currentTextBuilder, currentToolCall,
                              responseID, seenStart, ncalls, lastCall, refused,
                              notified>>
             ELSE LET out == processStreamEvent(event, fn, locals, ret)
                  IN  /\ Store(out.st)
                      /\ Record(out.call)
                      /\ seenStart' = (seenStart \/ (event.Event = "message_start"
                                                      /\ out.err = Nil))
                      /\ IF out.err # Nil
                         THEN Return(Returned(Nil, out.err), "failed")
                         ELSE IF ~out.shouldContinue
                         THEN Return(AfterLoop(out.st), "break")
                         ELSE UNCHANGED <<pc, bodyClosed, result, exit>>

\* A line is scanned after the context was cancelled (lines 701-705).
ScanCancelled ==
    /\ pc = "scan"
    /\ Cancelled
    /\ NextFrames # {}
    /\ Return(Returned(Nil, Errorf("context canceled")), "ctx")
    /\ unchangedScan

\* scanner.Scan() reports the end of the body.
ScanEOF ==
    /\ pc = "scan"
    /\ live \/ pos = Len(stream)
    /\ Return(AfterLoop(locals), "eof")
    /\ unchangedScan

\* scanner.Scan() stops on a read error (lines 736-738).
ScanFails ==
    /\ pc = "scan"
    /\ Return(Returned(Nil, Wrap("error reading stream", Errorf("read error"))), "read")
    /\ unchangedScan

CancelContext ==
    /\ pc = "scan"
    /\ ~ctxDone
    /\ ctxDone' = TRUE
    /\ UNCHANGED <<pc, fn, live, stream, pos, bodyClosed, anthropicResponse,
                   streamingParts, currentTextBuilder, currentToolCall, responseID,
                   message, result, exit, lastFrame, seenStart, ncalls, lastCall, refused,
                   notified, client,
                   currentEvent, dispatched, toolCalls, calls, messages, request, responseBody, streamOut>>

Next ==
    \/ BuildRequestFails
    \/ DoFails
    \/ UnexpectedStatus
    \/ OpenStream
    \/ ScanFrame
    \/ ScanCancelled
    \/ ScanEOF
    \/ ScanFails
    \/ CancelContext

Spec == Init /\ [][Next]_vars

(***************************************************************************)
(* Scripted response bodies: one message with one content block whose      *)
(* content arrives in up to MaxFrags fragments.                            *)
(***************************************************************************)
RECURSIVE Concat(_)
Concat(strings) ==
    IF strings = <<>> THEN <<>> ELSE Head(strings) \o Concat(Tail(strings))

\* Every way of cutting doc into k consecutive fragments, empty ones included.
Splits(doc, k) ==
    LET cuts == {c \in [0..k -> 0..Len(doc)] :
                    /\ c[0] = 0
                    /\ c[k] = Len(doc)
                    /\ \A i \in 1..k : c[i - 1] <= c[i]}
    IN  {[i \in 1..k |-> SubSeq(doc, c[i - 1] + 1, c[i])] : c \in cuts}

BlockStream(block, deltas) ==
    <<MessageStart(<<"m", "1">>), BlockStart(block)>> \o deltas
        \o <<BlockStop, MessageStop>>

TextFragments == {<<>>, <<"a">>, <<"b">>, <<"a", "b">>}

TextStreams ==
    {BlockStream(TextBlock, [i \in 1..Len(frags) |-> BlockDelta(TextDelta(frags[i]))]) :
        frags \in UNION {[1..k -> TextFragments] : k \in 1..MaxFrags}}

\* {} and {"a":1}
JSONDocuments ==
    {<<"{", "}">>, <<"{", "\"", "a", "\"", ":", "1", "}">>}

ToolStreams ==
    {BlockStream(ToolUse, [i \in 1..Len(frags) |-> BlockDelta(InputJSONDelta(frags[i]))]) :
        frags \in UNION {Splits(doc, k) : doc \in JSONDocuments, k \in 1..MaxFrags}}

InitText ==
    /\ InitCall
    /\ InitRest
    /\ live = FALSE
    /\ stream \in TextStreams

InitTool ==
    /\ InitCall
    /\ InitRest
    /\ live = FALSE
    /\ stream \in ToolStreams

SpecText == InitText /\ [][Next]_vars

SpecTool == InitTool /\ [][Next]_vars

(***************************************************************************)
(* The SDK-based GenerateStream (src/anthropic/tools.go, lines 1339-1421): *)
(* the SDK decodes the events, message.Accumulate folds each of them into  *)
(* an anthropic.Message, and convertMessageToResponse turns the message    *)
(* accumulated so far into a Response.                                     *)
(***************************************************************************)
ContentBlock(block) ==
    [Type |-> block.type, Text |-> <<>>, ID |-> Get(block, "id", <<>>),
     ToolUseID |-> <<>>, Name |-> Get(block, "name", <<>>),
     Input |-> IF block.type = "tool_use" THEN EmptyObject ELSE <<>>]

\* message.Accumulate(event): the new message and the error.
Accumulate(msg, event) ==
    CASE event.Event = "message_start" ->
            [message |-> [ID |-> event.Data.message.ID, Content |-> <<>>], err |-> Nil]
      [] event.Event = "content_block_start" ->
            [message |-> [msg EXCEPT !.Content =
                              Append(@, ContentBlock(event.Data.content_block))],
             err |-> Nil]
      [] event.Event = "content_block_delta" ->
            IF Len(msg.Content) = 0
            THEN [message |-> msg, err |-> Errorf("there was no content block")]
            ELSE LET n == Len(msg.Content)
                     delta == event.Data.delta
                 IN  CASE delta.type = "text_delta" ->
                            [message |-> [msg EXCEPT !.Content[n].Text = @ \o delta.text],
                             err |-> Nil]
                       [] delta.type = "input_json_delta" ->
                            [message |->
                                IF Len(delta.partial_json) = 0
                                THEN msg
                                ELSE IF msg.Content[n].Input = EmptyObject
                                THEN [msg EXCEPT !.Content[n].Input = delta.partial_json]
                                ELSE [msg EXCEPT !.Content[n].Input = @ \o delta.partial_json],
                             err |-> Nil]
                       [] OTHER -> [message |-> msg, err |-> Nil]
      [] OTHER -> [message |-> msg, err |-> Nil]

RECURSIVE ConvertBlocks(_, _)
\* The loop of convertMessageToResponse over msg.Content[i..]: the parts and
\* the errors it appends.
ConvertBlocks(content, i) ==
    IF i > Len(content)
    THEN [parts |-> <<>>, errs |-> <<>>]
    ELSE LET block == content[i]
             rest == ConvertBlocks(content, i + 1)
         IN  CASE block.Type = "text" ->
                    [rest EXCEPT !.parts = <<TextPart(block.Text)>> \o @]
               [] block.Type = "tool_use" ->
                    [rest EXCEPT !.parts =
                        <<ToolCallPart(block.ToolUseID, block.Name, block.Input)>> \o @]
               [] OTHER ->
                    [rest EXCEPT !.errs =
                        <<[error |-> "anthropic: unsupported content block type at index",
                           index |-> i - 1]>> \o @]

convertMessageToResponse(msg) ==
    LET converted == ConvertBlocks(msg.Content, 1)
        out == Response(msg.ID, converted.parts, msg)
    IN  IF Len(converted.errs) > 0
        THEN Returned(out, [error |-> "errors.Join", errs |-> converted.errs])
        ELSE Returned(out, Nil)

\* One iteration of the loop of GenerateStream (lines 1354-1375): the
\* message, the callback invocation, and the return if the loop is left.
StreamIteration(msg, event, ret) ==
    LET acc == Accumulate(msg, event)
        accErr == Wrap("anthropic: failed to accumulate message", acc.err)
        conv == convertMessageToResponse(acc.message)
        convErr == Wrap("anthropic: failed to convert message to response", conv.err)
    IN  IF acc.err # Nil
        THEN [message |-> acc.message,
              call |-> Invocation("error", Nil, accErr, ret),
              return |-> IF ret THEN Nil ELSE Returned(Nil, accErr)]
        ELSE IF conv.err # Nil
        THEN [message |-> acc.message,
              call |-> Invocation("error", Nil, convErr, ret),
              return |-> IF ret THEN Nil ELSE Returned(Nil, convErr)]
        ELSE [message |-> acc.message,
              call |-> Invocation("snapshot", conv.response, Nil, ret),
              return |-> IF ret THEN Nil ELSE Returned(conv.response, Nil)]

SDKEvents ==
    {MessageStart(<<"m", "1">>),
     BlockStart(TextBlock), BlockStart(ToolUse), BlockStart(ThinkingBlock),
     BlockDelta(TextDelta(<<"a">>)), BlockDelta(InputJSONDelta(<<>>)),
     BlockDelta(InputJSONDelta(<<"{", "}">>)), BlockDelta(ThinkingDelta),
     BlockStop, MessageDelta(Ptr("end_turn"), Nil, Nil), MessageStop}

unchangedSSE ==
    UNCHANGED <<live, stream, ctxDone, anthropicResponse, streamingParts,
                currentTextBuilder, currentToolCall, responseID, seenStart, client,
                currentEvent, dispatched, toolCalls,
                calls, messages, request, responseBody, streamOut>>

InitSDK == Init

SDKBuildRequestFails ==
    /\ pc = "call"
    /\ pc' = "returned"
    /\ exit' = "build"
    /\ result' = Returned(Nil, Errorf("anthropic: failed to build request"))
    /\ UNCHANGED <<fn, pos, message, lastFrame, ncalls, lastCall, refused, notified,
                   bodyClosed>>
    /\ unchangedSSE

SDKNewStreaming ==
    /\ pc = "call"
    /\ pc' = "stream"
    /\ UNCHANGED <<fn, pos, message, result, exit, lastFrame, ncalls, lastCall,
                   refused, notified, bodyClosed>>
    /\ unchangedSSE

\* stream.Next() delivers an event.  A nil callback cannot be called: the
\* call panics at its first invocation.  GenerateStream never calls
\* stream.Close(): a return from inside the loop leaves the body open.
SDKNext ==
    /\ pc = "stream"
    /\ pos < MaxEvents
    /\ \E event \in SDKEvents, ret \in BOOLEAN :
          LET it == StreamIteration(message, event, ret)
          IN  /\ pos' = pos + 1
              /\ lastFrame' = event
              /\ message' = it.message
              /\ UNCHANGED <<fn, bodyClosed>>
              /\ unchangedSSE
              /\ IF ~fn
                 THEN /\ pc' = "panicked"
                      /\ exit' = "panic"
                      /\ UNCHANGED <<result, ncalls, lastCall, refused, notified>>
                 ELSE /\ Record(it.call)
                      /\ IF it.return # Nil
                         THEN /\ pc' = "returned"
                              /\ exit' = "break"
                              /\ result' = it.return
                         ELSE UNCHANGED <<pc, exit, result>>

\* stream.Next() reports the end with an error (lines 1377-1379).  Whether
\* the SDK releases the body of a stream that has ended is not decided by
\* this repository.
SDKStreamFails ==
    /\ pc = "stream"
    /\ pc' = "returned"
    /\ exit' = "read"
    /\ bodyClosed' \in BOOLEAN
    /\ result' = Returned(Nil, Wrap("anthropic: streaming request failed",
                                    Errorf("stream error")))
    /\ UNCHANGED <<fn, pos, message, lastFrame, ncalls, lastCall, refused, notified>>
    /\ unchangedSSE

\* stream.Next() reports the end without error (line 1381).
SDKStreamEnds ==
    /\ pc = "stream"
    /\ pc' = "returned"
    /\ exit' = "eof"
    /\ bodyClosed' \in BOOLEAN
    /\ result' = convertMessageToResponse(message)
    /\ UNCHANGED <<fn, pos, message, lastFrame, ncalls, lastCall, refused, notified>>
    /\ unchangedSSE

NextSDK ==
    \/ SDKBuildRequestFails
    \/ SDKNewStreaming
    \/ SDKNext
    \/ SDKStreamFails
    \/ SDKStreamEnds

SpecSDK == InitSDK /\ [][NextSDK]_vars

(***************************************************************************)
(* Two GenerateStream calls on one Client (lines 500-523, 687-756).  Each  *)
(* call reads the fields of the client when it builds its request and      *)
(* keeps its accumulation state in the locals of its own parseSSEStream.   *)
(* The callback of a call returns false at its stopAt-th invocation.       *)
(***************************************************************************)
CallIds == {1, 2}

ConcurrentStreams ==
    {BlockStream(TextBlock, <<BlockDelta(TextDelta(<<"a">>)), BlockDelta(TextDelta(<<"b">>))>>),
     BlockStream(ToolUse, <<BlockDelta(InputJSONDelta(<<"{">>)),
                            BlockDelta(InputJSONDelta(<<"}">>))>>),
     <<MessageStart(<<"m", "2">>), BlockStart(TextBlock), BlockDelta(TextDelta(<<"a">>)),
       ErrorEvent(Overloaded)>>,
     <<BlockStart(TextBlock), BlockDelta(TextDelta(<<"b">>)), BlockStop>>}

NewLocals ==
    [anthropicResponse |-> Nil, streamingParts |-> <<>>, currentTextBuilder |-> <<>>,
     currentToolCall |-> Nil, responseID |-> <<>>]

NewCall(frames, stopAt) ==
    [pc |-> "call", stream |-> frames, stopAt |-> stopAt, pos |-> 0, ncalls |-> 0,
     request |-> Nil, locals |-> NewLocals, result |-> Nil]

\* The part of buildRequest that reads the client (lines 536-546).
buildRequest(a, streaming) ==
    [Model |-> a.Model, MaxTokens |-> a.MaxTokens, Stream |-> streaming]

\* Mutant: the accumulation state is kept in one place for every call.
CallLocals_Shared(c) == calls[1].locals

\* The locals of the parseSSEStream of call c (lines 690-695).
CallLocals(c) == calls[c].locals

InitConcurrent ==
    /\ InitCall
    /\ live = FALSE
    /\ stream = <<>>
    /\ client = NewClient
    /\ currentEvent = Nil
    /\ dispatched = <<>>
    /\ toolCalls = Nil
    /\ calls \in [CallIds -> {NewCall(frames, stopAt) :
                                  frames \in ConcurrentStreams, stopAt \in 0..2}]
    /\ messages = <<>>
    /\ request = Nil
    /\ responseBody = Nil
    /\ streamOut = Nil

unchangedCall ==
    UNCHANGED <<pc, fn, live, stream, pos, ctxDone, bodyClosed, anthropicResponse,
                streamingParts, currentTextBuilder, currentToolCall, responseID,
                message, result, exit, lastFrame, seenStart, ncalls, lastCall, refused,
                notified, client,
                currentEvent, dispatched, toolCalls, messages, request, responseBody, streamOut>>

CallOpenStream(c) ==
    /\ calls[c].pc = "call"
    /\ calls' = [calls EXCEPT ![c].pc = "scan",
                              ![c].request = buildRequest(client, TRUE)]
    /\ unchangedCall

CallScanFrame(c) ==
    /\ calls[c].pc = "scan"
    /\ calls[c].pos < Len(calls[c].stream)
    /\ LET call == calls[c]
           event == call.stream[call.pos + 1]
           ret == (call.ncalls + 1 # call.stopAt)
           done == processStreamEvent(event, TRUE, CallLocals(c), ret)
           invoked == IF done.call = Nil THEN 0 ELSE 1
           returned == IF done.err # Nil
                       THEN GenerateStreamReturn(Returned(Nil, done.err))
                       ELSE IF ~done.shouldContinue
                       THEN GenerateStreamReturn(AfterLoop(done.st))
                       ELSE Nil
       IN  calls' = [calls EXCEPT ![c].pos = @ + 1,
                                  ![c].ncalls = @ + invoked,
                                  ![c].locals = done.st,
                                  ![c].result = returned,
                                  ![c].pc = IF returned = Nil THEN "scan" ELSE "returned"]
    /\ unchangedCall

CallScanEOF(c) ==
    /\ calls[c].pc = "scan"
    /\ calls[c].pos = Len(calls[c].stream)
    /\ calls' = [calls EXCEPT ![c].pc = "returned",
                              ![c].result = GenerateStreamReturn(AfterLoop(CallLocals(c)))]
    /\ unchangedCall

NextConcurrent ==
    \E c \in CallIds :
        \/ CallOpenStream(c)
        \/ CallScanFrame(c)
        \/ CallScanEOF(c)

SpecConcurrent == InitConcurrent /\ [][NextConcurrent]_vars

RECURSIVE RunAlone(_, _, _, _, _)
\* What GenerateStream returns for the frames from position i on when it runs
\* alone: st are the locals, n the callback invocations so far.
RunAlone(frames, stopAt, i, n, st) ==
    IF i > Len(frames)
    THEN GenerateStreamReturn(AfterLoop(st))
    ELSE LET done == processStreamEvent(frames[i], TRUE, st, n + 1 # stopAt)
         IN  IF done.err # Nil
             THEN GenerateStreamReturn(Returned(Nil, done.err))
             ELSE IF ~done.shouldContinue
             THEN GenerateStreamReturn(AfterLoop(done.st))
             ELSE RunAlone(frames, stopAt, i + 1,
                           IF done.call = Nil THEN n ELSE n + 1, done.st)

(***************************************************************************)
(* The Gemini GenerateStream (src/gemini/client.go, lines 134-260): the    *)
(* SDK yields (response, error) pairs; the parts of the first candidate of *)
(* each response are appended to out, and the callback is invoked with out *)
(* after each response.                                                    *)
(***************************************************************************)
GeminiText(text) == [Text |-> text, FunctionCall |-> Nil]
GeminiFunctionCall(id, name) ==
    [Text |-> <<>>, FunctionCall |-> [ID |-> id, Name |-> name, Args |-> EmptyObject]]

GenerateContentResponse(candidates) == [Candidates |-> candidates]

GeminiChunks ==
    {GenerateContentResponse(<<>>),
     GenerateContentResponse(<<[Content |-> Nil]>>),
     GenerateContentResponse(<<[Content |-> [Parts |-> <<GeminiText(<<"a">>)>>]]>>),
     GenerateContentResponse(<<[Content |-> [Parts |-> <<GeminiText(<<>>)>>]]>>),
     GenerateContentResponse(<<[Content |-> [Parts |->
         <<GeminiText(<<"b">>), GeminiFunctionCall(<<>>, <<"f">>)>>]]>>),
     GenerateContentResponse(<<[Content |-> [Parts |->
         <<GeminiFunctionCall(<<"c", "1">>, <<"f">>)>>]]>>)}

\* What uuid.NewString() may return.
UUIDs == {<<"u", "1">>, <<"u", "2">>}

RECURSIVE GeminiParts(_, _)
\* The parts the loop over candidate.Content.Parts appends (lines 230-250).
GeminiParts(parts, uuid) ==
    IF parts = <<>>
    THEN <<>>
    ELSE LET part == Head(parts)
             id == IF part.FunctionCall.ID = <<>>
                   THEN <<"c", "a", "l", "l", "-">> \o uuid
                   ELSE part.FunctionCall.ID
         IN  (IF part.Text # <<>> THEN <<TextPart(part.Text)>> ELSE <<>>)
             \o (IF part.FunctionCall # Nil
                 THEN <<ToolCallPart(id, part.FunctionCall.Name, part.FunctionCall.Args)>>
                 ELSE <<>>)
             \o GeminiParts(Tail(parts), uuid)

\* out := llmite.Response{} (line 220).
ZeroResponse ==
    [ID |-> <<>>, Message |-> [Role |-> "", Parts |-> <<>>], Provider |-> "", Raw |-> Nil]

\* out after the body of the loop has handled resp (lines 227-254).
GeminiAppend(response, resp, uuid) ==
    LET appended ==
            IF Len(resp.Candidates) > 0 /\ resp.Candidates[1].Content # Nil
            THEN GeminiParts(resp.Candidates[1].Content.Parts, uuid)
            ELSE <<>>
    IN  [response EXCEPT !.Message.Parts = @ \o appended, !.Raw = [ptr |-> "message"]]

\* The Response an invocation of the callback was handed: fn(&out, err)
\* passes the address of out (line 256), so what the callback holds is out
\* itself, with whatever the loop has written to it since.
GeminiDelivered == streamOut

InitGemini == Init

unchangedGemini ==
    UNCHANGED <<live, stream, ctxDone, bodyClosed, anthropicResponse, streamingParts,
                currentTextBuilder, currentToolCall, responseID, message, seenStart,
                client,
                currentEvent, dispatched, toolCalls, calls, messages, request, responseBody>>

\* An unsupported system instruction part or message role (lines 138-215).
GeminiConvertFails ==
    /\ pc = "call"
    /\ pc' = "returned"
    /\ exit' = "build"
    /\ result' = Returned(Nil, Errorf("unsupported message role for Gemini"))
    /\ UNCHANGED <<fn, pos, streamOut, lastFrame, ncalls, lastCall, refused, notified>>
    /\ unchangedGemini

GeminiGenerateContentStream ==
    /\ pc = "call"
    /\ pc' = "stream"
    /\ streamOut' = ZeroResponse
    /\ UNCHANGED <<fn, pos, result, exit, lastFrame, ncalls, lastCall, refused, notified>>
    /\ unchangedGemini

\* The stream yields a response (lines 221-257).  The result of the callback
\* is discarded (line 256); a nil callback cannot be called.
GeminiNext ==
    /\ pc = "stream"
    /\ pos < MaxEvents
    /\ \E resp \in GeminiChunks, uuid \in UUIDs, ret \in BOOLEAN :
          /\ pos' = pos + 1
          /\ lastFrame' = resp
          /\ streamOut' = GeminiAppend(streamOut, resp, uuid)
          /\ UNCHANGED fn
          /\ unchangedGemini
          /\ IF ~fn
             THEN /\ pc' = "panicked"
                  /\ exit' = "panic"
                  /\ UNCHANGED <<result, ncalls, lastCall, refused, notified>>
             ELSE /\ Record(Invocation("snapshot", streamOut', Nil, ret))
                  /\ UNCHANGED <<pc, exit, result>>

\* The stream yields an error (lines 223-225).
GeminiStreamFails ==
    /\ pc = "stream"
    /\ pc' = "returned"
    /\ exit' = "read"
    /\ result' = Returned(Nil, Errorf("stream error"))
    /\ UNCHANGED <<fn, pos, streamOut, lastFrame, ncalls, lastCall, refused, notified>>
    /\ unchangedGemini

\* The stream ends (line 259).
GeminiStreamEnds ==
    /\ pc = "stream"
    /\ pc' = "returned"
    /\ exit' = "eof"
    /\ result' = Returned(streamOut, Nil)
    /\ UNCHANGED <<fn, pos, streamOut, lastFrame, ncalls, lastCall, refused, notified>>
    /\ unchangedGemini

NextGemini ==
    \/ GeminiConvertFails
    \/ GeminiGenerateContentStream
    \/ GeminiNext
    \/ GeminiStreamFails
    \/ GeminiStreamEnds

SpecGemini == InitGemini /\ [][NextGemini]_vars

(***************************************************************************)
(* convertMessages of the SSE implementation (src/anthropic/tools.go,      *)
(* lines 581-649) and of the SDK-based implementation (lines 1423-1503).   *)
(* A block is written with the field names of its JSON form.               *)
(***************************************************************************)
RoleSystem == "system"
RoleUser == "user"

ToolResultPart(toolCallID, name, res, error) ==
    [part |-> "ToolResultPart", ToolCallID |-> toolCallID, Name |-> name,
     Result |-> res, Error |-> error]

Message(role, parts) == [Role |-> role, Parts |-> parts]

RequestTextBlock(text) == [type |-> "text", text |-> text]
RequestToolUseBlock(id, name, input) ==
    [type |-> "tool_use", id |-> id, name |-> name, input |-> input]
RequestToolResultBlock(toolUseID, content, isError) ==
    [type |-> "tool_result", tool_use_id |-> toolUseID, content |-> content,
     is_error |-> isError]
InputMessage(role, content) == [role |-> role, content |-> content]

\* The byte strings a ToolCallPart may carry as its Input.
NullJSON == <<"n", "u", "l", "l">>
ObjectJSON == <<"{", "\"", "a", "\"", ":", "1", "}">>
ArrayJSON == <<"[", "1", "]">>

\* json.Unmarshal(p.Input, &input) with input a map[string]any (line 623):
\* an object gives its map, null leaves the map nil, anything else fails.
jsonUnmarshalObject(bytes) ==
    CASE bytes = EmptyObject -> [err |-> Nil, value |-> [object |-> {}]]
      [] bytes = ObjectJSON -> [err |-> Nil, value |-> [object |-> {<<"a", 1>>}]]
      [] bytes = NullJSON -> [err |-> Nil, value |-> Nil]
      [] OTHER -> [err |-> Errorf("json: cannot unmarshal"), value |-> Nil]

\* Mutant: a part of a system message that is not text is skipped.
ConvertSystemParts_SkipsOthers(parts) ==
    LET texts == SelectSeq(parts, LAMBDA p : p.part = "TextPart")
    IN  [blocks |-> [i \in 1..Len(texts) |-> RequestTextBlock(texts[i].Text)],
         failed |-> FALSE]

\* The loop over the parts of a system message (lines 587-597, 1432-1441):
\* the text blocks appended before the first part that is not text, and
\* whether there is such a part.
ConvertSystemParts(parts) ==
    LET others == {j \in 1..Len(parts) : parts[j].part # "TextPart"}
        stop == IF others = {}
                THEN Len(parts) + 1
                ELSE CHOOSE j \in others : \A k \in others : j <= k
    IN  [blocks |-> [j \in 1..(stop - 1) |-> RequestTextBlock(parts[j].Text)],
         failed |-> others # {}]

\* Mutant: the system prompt holds the text of the last system message only.
AppendSystem_Overwrites(system, blocks) == blocks

\* system = append(system, block) for each text block (lines 593, 1435).
AppendSystem(system, blocks) == system \o blocks

\* Mutant: every wire message is a user message.
WireRole_AlwaysUser(role) ==
    IF role \in {RoleUser, RoleAssistant} THEN "user" ELSE ""

\* The switch on msg.Role (lines 604-611, 1448-1455): "" for a role that
\* fails the conversion.
WireRole(role) ==
    CASE role = RoleUser -> "user"
      [] role = RoleAssistant -> "assistant"
      [] OTHER -> ""

RECURSIVE ConvertParts(_)
\* The loop over the parts of a user or assistant message (lines 613-643):
\* the content blocks, and the error that ends the conversion.
ConvertParts(parts) ==
    IF parts = <<>>
    THEN [content |-> <<>>, err |-> Nil]
    ELSE LET p == Head(parts)
             input == jsonUnmarshalObject(p.Input)
             rest == ConvertParts(Tail(parts))
             block == CASE p.part = "TextPart" -> RequestTextBlock(p.Text)
                        [] p.part = "ToolCallPart" ->
                              RequestToolUseBlock(p.ID, p.Name, input.value)
                        [] p.part = "ToolResultPart" ->
                              RequestToolResultBlock(p.ToolCallID, p.Result, Nil)
         IN  IF p.part = "ToolCallPart" /\ input.err # Nil
             THEN [content |-> <<>>,
                   err |-> Wrap("anthropic: failed to unmarshal tool call input JSON",
                                input.err)]
             ELSE [rest EXCEPT !.content = <<block>> \o @]

RECURSIVE ConvertFrom(_, _, _, _)
\* The loop of convertMessages from message i on (lines 585-646), with the
\* system prompt and the wire messages built so far.
ConvertFrom(msgs, i, system, wire) ==
    IF i > Len(msgs)
    THEN [system |-> system, messages |-> wire, err |-> Nil]
    ELSE LET msg == msgs[i]
             sys == ConvertSystemParts(msg.Parts)
             conv == ConvertParts(msg.Parts)
         IN  IF msg.Role = RoleSystem
             THEN IF sys.failed
                  THEN [system |-> Nil, messages |-> Nil,
                        err |-> Errorf("anthropic: unsupported system message part type")]
                  ELSE ConvertFrom(msgs, i + 1, AppendSystem(system, sys.blocks), wire)
             ELSE IF WireRole(msg.Role) = ""
             THEN [system |-> Nil, messages |-> Nil,
                   err |-> Errorf("anthropic: unsupported message role")]
             ELSE IF conv.err # Nil
             THEN [system |-> Nil, messages |-> Nil, err |-> conv.err]
             ELSE ConvertFrom(msgs, i + 1, system,
                              Append(wire, InputMessage(WireRole(msg.Role), conv.content)))

convertMessages(msgs) == ConvertFrom(msgs, 1, <<>>, <<>>)

RECURSIVE SDKConvertParts(_)
\* The loop over the parts in the SDK-based convertMessages (lines 1459-1497):
\* the Input of a tool call is passed on as it is, and a tool result carries
\* its Result as a text block and IsError when the part has an Error.
SDKConvertParts(parts) ==
    IF parts = <<>>
    THEN <<>>
    ELSE LET p == Head(parts)
             block == CASE p.part = "TextPart" -> RequestTextBlock(p.Text)
                        [] p.part = "ToolCallPart" ->
                              RequestToolUseBlock(p.ID, p.Name, p.Input)
                        [] p.part = "ToolResultPart" ->
                              RequestToolResultBlock(p.ToolCallID,
                                  <<RequestTextBlock(p.Result)>>,
                                  IF p.Error # Nil THEN Ptr(TRUE) ELSE Nil)
         IN  <<block>> \o SDKConvertParts(Tail(parts))

RECURSIVE SDKConvertFrom(_, _, _, _)
\* The loop of the SDK-based convertMessages (lines 1427-1500): on a failure
\* it returns the system prompt built so far and no wire messages.
SDKConvertFrom(msgs, i, system, wire) ==
    IF i > Len(msgs)
    THEN [system |-> system, messages |-> wire, err |-> Nil]
    ELSE LET msg == msgs[i]
             sys == ConvertSystemParts(msg.Parts)
         IN  IF msg.Role = RoleSystem
             THEN IF sys.failed
                  THEN [system |-> AppendSystem(system, sys.blocks), messages |-> Nil,
                        err |-> [error |-> "anthropic: unsupported message part type",
                                 message |-> i - 1]]
                  ELSE SDKConvertFrom(msgs, i + 1, AppendSystem(system, sys.blocks), wire)
             ELSE IF WireRole(msg.Role) = ""
             THEN [system |-> system, messages |-> Nil,
                   err |-> [error |-> "anthropic: unsupported message role",
                            message |-> i - 1]]
             ELSE SDKConvertFrom(msgs, i + 1, system,
                      Append(wire, InputMessage(WireRole(msg.Role),
                                                SDKConvertParts(msg.Parts))))

SDKconvertMessages(msgs) == SDKConvertFrom(msgs, 1, <<>>, <<>>)

(***************************************************************************)
(* convertMessages of the OpenAI client (src/openai/client.go, lines       *)
(* 288-354): every message is converted in place, a system message too.    *)
(***************************************************************************)
ChatMessage(role, content) == [role |-> role, content |-> content]
ToolMessage(content, toolCallID) ==
    [role |-> "tool", content |-> content, tool_call_id |-> toolCallID]

\* content += p.Text over the text parts.
TextOf(parts) ==
    Concat([j \in 1..Len(parts) |->
               IF parts[j].part = "TextPart" THEN parts[j].Text ELSE <<>>])

\* One iteration of the loop (lines 291-351): the wire messages it appends
\* and the error that ends the conversion.
OpenAIConvertMessage(msg, i) ==
    LET results == SelectSeq(msg.Parts, LAMBDA p : p.part = "ToolResultPart")
        allText == \A j \in 1..Len(msg.Parts) : msg.Parts[j].part = "TextPart"
    IN  CASE msg.Role \in {RoleSystem, RoleUser} ->
                IF allText
                THEN [wire |-> <<ChatMessage(msg.Role, TextOf(msg.Parts))>>, err |-> Nil]
                ELSE [wire |-> <<>>,
                      err |-> [error |-> "openai: unsupported message part type",
                               message |-> i - 1]]
          [] msg.Role = RoleAssistant ->
                [wire |-> [j \in 1..Len(results) |->
                              ToolMessage(results[j].Result, results[j].ToolCallID)]
                          \o (IF TextOf(msg.Parts) # <<>> /\ results = <<>>
                              THEN <<ChatMessage(RoleAssistant, TextOf(msg.Parts))>>
                              ELSE <<>>),
                 err |-> Nil]
          [] OTHER ->
                [wire |-> <<>>,
                 err |-> [error |-> "openai: unsupported message role", message |-> i - 1]]

RECURSIVE OpenAIConvertFrom(_, _, _)
OpenAIConvertFrom(msgs, i, wire) ==
    IF i > Len(msgs)
    THEN [messages |-> wire, err |-> Nil]
    ELSE LET conv == OpenAIConvertMessage(msgs[i], i)
         IN  IF conv.err # Nil
             THEN [messages |-> Nil, err |-> conv.err]
             ELSE OpenAIConvertFrom(msgs, i + 1, wire \o conv.wire)

OpenAIconvertMessages(msgs) == OpenAIConvertFrom(msgs, 1, <<>>)

(***************************************************************************)
(* The conversations convertMessages is applied to.                        *)
(***************************************************************************)
TestError == Errorf("test error")

SampleMessages ==
    {Message(RoleSystem, <<TextPart(<<"a">>)>>),
     Message(RoleSystem, <<TextPart(<<"b">>)>>),
     Message(RoleSystem, <<TextPart(<<"a">>), ToolCallPart(<<"c", "1">>, <<"f">>, EmptyObject)>>),
     Message(RoleSystem, <<ToolResultPart(<<"c", "1">>, <<"f">>, <<"o", "k">>, Nil)>>),
     Message(RoleUser, <<TextPart(<<"a">>)>>),
     Message(RoleUser, <<ToolResultPart(<<"c", "1">>, <<"f">>, <<"n", "o">>, TestError),
                         TextPart(<<"b">>)>>),
     Message(RoleUser, <<ToolResultPart(<<"c", "2">>, <<"f">>, <<"o", "k">>, Nil)>>),
     Message(RoleAssistant, <<TextPart(<<"b">>),
                              ToolCallPart(<<"c", "1">>, <<"f">>, ObjectJSON)>>),
     Message(RoleAssistant, <<ToolCallPart(<<"c", "2">>, <<"f">>, ArrayJSON)>>),
     Message(RoleAssistant, <<ToolCallPart(<<"c", "2">>, <<"f">>, NullJSON)>>),
     Message("tool", <<TextPart(<<"a">>)>>),
     Message(RoleUser, <<>>)}

Conversations == UNION {[1..n -> SampleMessages] : n \in 0..MaxMessages}

InitConvert ==
    /\ InitCall
    /\ live = FALSE
    /\ stream = <<>>
    /\ client = NewClient
    /\ currentEvent = Nil
    /\ dispatched = <<>>
    /\ toolCalls = Nil
    /\ calls = <<>>
    /\ messages \in Conversations
    /\ request = Nil
    /\ responseBody = Nil
    /\ streamOut = Nil

unchangedConvert ==
    UNCHANGED <<fn, live, stream, pos, ctxDone, bodyClosed, anthropicResponse,
                streamingParts, currentTextBuilder, currentToolCall, responseID,
                message, result, lastFrame, seenStart, ncalls, lastCall, refused,
                notified, client,
                currentEvent, dispatched, toolCalls, calls, messages, responseBody, streamOut>>

\* buildRequest of the SSE implementation converts the messages (line 526).
ConvertMessages ==
    /\ pc = "call"
    /\ pc' = "returned"
    /\ exit' = "sse"
    /\ request' = convertMessages(messages)
    /\ unchangedConvert

\* BuildRequest of the SDK-based implementation converts the messages.
SDKConvertMessages ==
    /\ pc = "call"
    /\ pc' = "returned"
    /\ exit' = "sdk"
    /\ request' = SDKconvertMessages(messages)
    /\ unchangedConvert

\* GenerateStream of the OpenAI client converts the messages.
OpenAIConvertMessages ==
    /\ pc = "call"
    /\ pc' = "returned"
    /\ exit' = "openai"
    /\ request' = OpenAIconvertMessages(messages)
    /\ unchangedConvert

NextConvert ==
    \/ ConvertMessages
    \/ SDKConvertMessages
    \/ OpenAIConvertMessages

SpecConvert == InitConvert /\ [][NextConvert]_vars

\* The messages of a conversation that are not system messages, in order.
NonSystem(msgs) == SelectSeq(msgs, LAMBDA m : m.Role # RoleSystem)

\* The text of every text part of every system message, in order.
SystemTexts(msgs) ==
    Concat([i \in 1..Len(msgs) |->
               IF msgs[i].Role = RoleSystem
               THEN [j \in 1..Len(SelectSeq(msgs[i].Parts, LAMBDA p : p.part = "TextPart")) |->
                        SelectSeq(msgs[i].Parts, LAMBDA p : p.part = "TextPart")[j].Text]
               ELSE <<>>])

\* Some system message holds a part that is not a TextPart.
HasBadSystem(msgs) ==
    \E i \in 1..Len(msgs) :
        /\ msgs[i].Role = RoleSystem
        /\ \E j \in 1..Len(msgs[i].Parts) : msgs[i].Parts[j].part # "TextPart"

\* The content block stands for the part.
Corresponds(p, block) ==
    CASE p.part = "TextPart" -> block.type = "text" /\ block.text = p.Text
      [] p.part = "ToolCallPart" ->
            block.type = "tool_use" /\ block.id = p.ID /\ block.name = p.Name
      [] p.part = "ToolResultPart" ->
            block.type = "tool_result" /\ block.tool_use_id = p.ToolCallID

Converted == pc = "returned" /\ exit \in {"sse", "sdk"}

(***************************************************************************)
(* The non-streaming decoder (src/unnamed/part_010, lines 360-380 and      *)
(* 576-661).  An element of the content array is a JSON value: json says   *)
(* whether it is an object whose type tag, if any, is a string; type is    *)
(* the tag ("" if absent), and valid says whether its fields decode into   *)
(* the block type of that tag.                                             *)
(***************************************************************************)
Element(json, type, valid, text, id, name, input) ==
    [json |-> json, type |-> type, valid |-> valid, text |-> text, id |-> id,
     name |-> name, input |-> input]

TextElement(text) == Element("object", "text", TRUE, text, <<>>, <<>>, <<>>)
ToolUseElement(id, name, input) == Element("object", "tool_use", TRUE, <<>>, id, name, input)
ThinkingElement == Element("object", "thinking", TRUE, <<>>, <<>>, <<>>, <<>>)
FutureElement == Element("object", "future_block", TRUE, <<>>, <<>>, <<>>, <<>>)
IllTypedTextElement == Element("object", "text", FALSE, <<>>, <<>>, <<>>, <<>>)
ScalarElement == Element("scalar", "", FALSE, <<>>, <<>>, <<>>, <<>>)
UntaggedElement == Element("object", "", TRUE, <<>>, <<>>, <<>>, <<>>)

\* The type tags the switch of UnmarshalResponseContent knows (lines 591-657).
RecognizedTypes ==
    {"text", "tool_use", "thinking", "redacted_thinking", "server_tool_use",
     "mcp_tool_use", "mcp_tool_result", "container_upload", "web_search_tool_result",
     "web_search_result", "code_execution_tool_result", "code_execution_result",
     "code_execution_output"}

ResponseBlock(raw) ==
    [Type |-> raw.type, Text |-> raw.text, ID |-> raw.id, Name |-> raw.name,
     Input |-> raw.input]

\* Mutant: an element of an unknown type is kept.
DecodeElement_KeepsUnknown(raw) ==
    IF raw.json # "object" \/ ~raw.valid
    THEN Nil
    ELSE ResponseBlock(raw)

\* One iteration of the loop of UnmarshalResponseContent (lines 583-658): the
\* block appended to contents, Nil if none is.
DecodeElement(raw) ==
    IF raw.json # "object"
    THEN Nil
    ELSE IF raw.type \notin RecognizedTypes
    THEN Nil
    ELSE IF ~raw.valid
    THEN Nil
    ELSE ResponseBlock(raw)

\* The content of a response body: an array of elements, or another value.
ContentArray(elements) == [kind |-> "array", elements |-> elements]
ContentNull == [kind |-> "null", elements |-> <<>>]
ContentMissing == [kind |-> "missing", elements |-> <<>>]
ContentObject == [kind |-> "object", elements |-> <<>>]

UnmarshalResponseContent(data) ==
    IF data.kind \notin {"array", "null"}
    THEN [contents |-> Nil, err |-> Errorf("json: cannot unmarshal content")]
    ELSE LET kept == SelectSeq(data.elements, LAMBDA raw : DecodeElement(raw) # Nil)
         IN  [contents |-> [i \in 1..Len(kept) |-> DecodeElement(kept[i])], err |-> Nil]

\* A response body: raw says whether it is JSON at all.
Body(id, content) == [raw |-> "json", id |-> id, content |-> content]
MalformedBody == [raw |-> "malformed", id |-> <<>>, content |-> ContentMissing]

\* CreateMessageResponse.UnmarshalJSON (lines 360-380): the decoded response
\* and the error.
UnmarshalJSON(data) ==
    IF data.raw # "json"
    THEN [responseBody |-> Nil, err |-> Errorf("invalid character")]
    ELSE LET decoded == UnmarshalResponseContent(data.content)
         IN  IF decoded.err # Nil
             THEN [responseBody |-> Nil, err |-> decoded.err]
             ELSE [responseBody |-> [ID |-> data.id, Content |-> decoded.contents],
                   err |-> Nil]

(***************************************************************************)
(* Generate of the SSE implementation (src/anthropic/tools.go, lines       *)
(* 449-498).  stream is the body of the response the server sends.         *)
(***************************************************************************)
SampleElements ==
    {TextElement(<<"a">>), TextElement(<<"b">>),
     ToolUseElement(<<"t", "1">>, <<"f">>, ObjectJSON),
     ThinkingElement, FutureElement, IllTypedTextElement, ScalarElement, UntaggedElement}

Bodies ==
    {Body(<<"m", "1">>, ContentArray(elements)) :
        elements \in UNION {[1..n -> SampleElements] : n \in 0..MaxBlocks}}
    \cup {Body(<<"m", "1">>, ContentNull), Body(<<"m", "1">>, ContentMissing),
          Body(<<"m", "1">>, ContentObject), MalformedBody}

\* The block is one the loop of Generate turns into a part (lines 474-482).
Supported(block) == block.Type \in {"text", "tool_use"}

PartOf(block) ==
    IF block.Type = "text"
    THEN TextPart(block.Text)
    ELSE ToolCallPart(block.ID, block.Name, block.Input)

\* The loop over responseBody.Content and the return (lines 471-497).
GenerateResponse(body) ==
    IF \E i \in 1..Len(body.Content) : ~Supported(body.Content[i])
    THEN Returned(Nil, Errorf("anthropic: unsupported response content block type"))
    ELSE Returned(Response(body.ID,
                           [i \in 1..Len(body.Content) |-> PartOf(body.Content[i])],
                           body),
                  Nil)

InitGenerate ==
    /\ InitCall
    /\ live = FALSE
    /\ stream \in Bodies
    /\ client = NewClient
    /\ currentEvent = Nil
    /\ dispatched = <<>>
    /\ toolCalls = Nil
    /\ calls = <<>>
    /\ messages \in {<<Message(RoleUser, <<TextPart(<<"a">>)>>)>>,
                      <<Message("tool", <<TextPart(<<"a">>)>>)>>}
    /\ request = Nil
    /\ responseBody = Nil
    /\ streamOut = Nil

unchangedGenerate ==
    UNCHANGED <<fn, live, stream, pos, ctxDone, anthropicResponse, streamingParts,
                currentTextBuilder, currentToolCall, responseID, message, lastFrame,
                seenStart, ncalls, lastCall, refused, notified, client,
                currentEvent, dispatched, toolCalls, calls, messages,
                streamOut>>

\* buildRequest (lines 450-453).
GenerateBuildRequest ==
    /\ pc = "call"
    /\ request' = convertMessages(messages)
    /\ IF request'.err # Nil
       THEN /\ pc' = "returned"
            /\ exit' = "build"
            /\ result' = Returned(Nil, Wrap("anthropic: failed to convert messages",
                                            request'.err))
       ELSE /\ pc' = "do"
            /\ UNCHANGED <<exit, result>>
    /\ UNCHANGED <<bodyClosed, responseBody>>
    /\ unchangedGenerate

\* a.client.Do fails (lines 455-458).
GenerateDoFails ==
    /\ pc = "do"
    /\ pc' = "returned"
    /\ exit' = "do"
    /\ result' = Returned(Nil, Errorf("anthropic: request failed"))
    /\ UNCHANGED <<bodyClosed, request, responseBody>>
    /\ unchangedGenerate

\* The status is not 2xx (lines 459-464).
GenerateBadStatus ==
    /\ pc = "do"
    /\ pc' = "returned"
    /\ exit' = "status"
    /\ bodyClosed' = TRUE
    /\ result' = Returned(Nil, Errorf("anthropic: request failed with status"))
    /\ UNCHANGED <<request, responseBody>>
    /\ unchangedGenerate

\* The body is decoded and converted (lines 459-497).
GenerateDecode ==
    /\ pc = "do"
    /\ pc' = "returned"
    /\ bodyClosed' = TRUE
    /\ LET decoded == UnmarshalJSON(stream)
       IN  /\ responseBody' = decoded.responseBody
           /\ IF decoded.err # Nil
              THEN /\ exit' = "decode"
                   /\ result' = Returned(Nil,
                          Wrap("anthropic: failed to decode response body", decoded.err))
              ELSE /\ exit' = "decoded"
                   /\ result' = GenerateResponse(decoded.responseBody)
    /\ UNCHANGED request
    /\ unchangedGenerate

NextGenerate ==
    \/ GenerateBuildRequest
    \/ GenerateDoFails
    \/ GenerateBadStatus
    \/ GenerateDecode

SpecGenerate == InitGenerate /\ [][NextGenerate]_vars

\* The elements of the content array whose type tag the decoder knows.
RecognizedElements(elements) ==
    SelectSeq(elements, LAMBDA raw : raw.json = "object" /\ raw.type \in RecognizedTypes)

\* Generate read the body and it was JSON with an array as its content.
ContentDecoded ==
    /\ pc = "returned"
    /\ exit \in {"decode", "decoded"}
    /\ stream.raw = "json"
    /\ stream.content.kind = "array"

(***************************************************************************)
(* convertTools of the SSE implementation (src/anthropic/tools.go, lines   *)
(* 651-685).  A schema is nil or a map; of the map only the dynamic types  *)
(* of its "properties" and "required" entries count: the type the code     *)
(* asserts, another type, or no entry.  A nil slice and an empty slice are *)
(* both the empty sequence: the loop treats them alike, and the result is  *)
(* the slice made at line 652 in both cases.                               *)
(***************************************************************************)
LlmTool(name, description, schema) ==
    [Name |-> name, Description |-> description, Schema |-> schema]

\* schema["properties"] and schema["required"].
PropertiesMap == [kind |-> "map[string]interface{}", keys |-> {"input"}]
RequiredStrings == [kind |-> "[]string", value |-> <<"input">>]
RequiredAny == [kind |-> "[]interface{}", value |-> <<"input">>]
NotAMap == [kind |-> "string"]
Missing == [kind |-> "missing"]

Schema(properties, required) == [properties |-> properties, required |-> required]

InputSchema(properties, required) == [properties |-> properties, required |-> required]

\* The zero InputSchema of a Tool whose schema is nil.
ZeroInputSchema == InputSchema(Nil, Nil)

WireTool(name, description, inputSchema) ==
    [name |-> name, description |-> description, input_schema |-> inputSchema]

\* The body of the loop for one tool (lines 655-680): the wire tool or the
\* error of the type assertion on "properties".
ConvertTool(tool) ==
    LET description == IF tool.Description # <<>> THEN Ptr(tool.Description) ELSE Nil
        schema == tool.Schema
    IN  IF schema = Nil
        THEN [tool |-> WireTool(tool.Name, description, ZeroInputSchema), err |-> Nil]
        ELSE IF schema.properties.kind # "map[string]interface{}"
        THEN [tool |-> Nil,
              err |-> Errorf("anthropic: tool schema 'properties' is not a map[string]interface{}")]
        ELSE LET required == IF schema.required.kind = "[]string"
                             THEN schema.required.value
                             ELSE <<>>
             IN  [tool |-> WireTool(tool.Name, description,
                                    InputSchema(schema.properties, required)),
                  err |-> Nil]

\* Mutant: a tool whose name is already in the list is left out.
AppendTool_Deduplicates(out, anthTool) ==
    IF \E i \in 1..Len(out) : out[i].name = anthTool.name
    THEN out
    ELSE Append(out, anthTool)

\* out = append(out, anthTool) (line 682).
AppendTool(out, anthTool) == Append(out, anthTool)

RECURSIVE ConvertToolsFrom(_, _, _)
\* The loop of convertTools from the i-th tool on, out being the list so far.
ConvertToolsFrom(tools, i, out) ==
    IF i > Len(tools)
    THEN [tools |-> out, err |-> Nil]
    ELSE LET converted == ConvertTool(tools[i])
         IN  IF converted.err # Nil
             THEN [tools |-> Nil, err |-> converted.err]
             ELSE ConvertToolsFrom(tools, i + 1, AppendTool(out, converted.tool))

convertTools(tools) == ConvertToolsFrom(tools, 1, <<>>)

SampleTools ==
    {LlmTool(<<"f">>, <<"d">>, Schema(PropertiesMap, RequiredStrings)),
     LlmTool(<<"f">>, <<>>, Nil),
     LlmTool(<<"g">>, <<"d">>, Schema(PropertiesMap, RequiredAny)),
     LlmTool(<<"g">>, <<>>, Schema(NotAMap, RequiredStrings)),
     LlmTool(<<"h">>, <<"d">>, Schema(Missing, Missing))}

ToolLists == UNION {[1..n -> SampleTools] : n \in 0..MaxTools}

InitTools ==
    /\ InitCall
    /\ live = FALSE
    /\ stream = <<>>
    /\ client \in {[NewClient EXCEPT !.Tools = tools] : tools \in ToolLists}
    /\ currentEvent = Nil
    /\ dispatched = <<>>
    /\ toolCalls = Nil
    /\ calls = <<>>
    /\ messages = <<>>
    /\ request = Nil
    /\ responseBody = Nil
    /\ streamOut = Nil

\* convertTools(a.Tools), as buildRequest calls it (line 531).
ConvertTools ==
    /\ pc = "call"
    /\ pc' = "returned"
    /\ exit' = "tools"
    /\ request' = convertTools(client.Tools)
    /\ UNCHANGED <<fn, live, stream, pos, ctxDone, bodyClosed, anthropicResponse,
                   streamingParts, currentTextBuilder, currentToolCall, responseID,
                   message, result, lastFrame, seenStart, ncalls, lastCall, refused,
                   notified, client, currentEvent, dispatched, toolCalls, calls,
                   messages, responseBody, streamOut>>

NextTools == ConvertTools

SpecTools == InitTools /\ [][NextTools]_vars

\* A schema convertTools accepts.
ValidSchema(tool) ==
    tool.Schema = Nil \/ tool.Schema.properties.kind = "map[string]interface{}"

(***************************************************************************)
(* The loop of parseSSEStream line by line (src/anthropic/tools.go, lines  *)
(* 697-734).  A line is an "event: " line, a "data: " line, the empty line *)
(* or any other line; name and data are what strings.TrimPrefix leaves of  *)
(* it.  The response body is the sequence of lines stream.                 *)
(***************************************************************************)
EventLine(name) == [kind |-> "event", name |-> name]
DataLine(data) == [kind |-> "data", data |-> data]
BlankLine == [kind |-> "blank"]
\* A comment, an id: line, or a field name without the space after the colon.
OtherLine == [kind |-> "other"]

\* var currentEvent StreamEvent, and StreamEvent{} (lines 691, 732).
ZeroEvent == StreamEvent("", NoData)

\* Mutant: the event buffer keeps its fields after a blank line.
ResetEvent_Keeps(event) == event

\* currentEvent = StreamEvent{} (line 732).
ResetEvent(event) == ZeroEvent

SampleLines ==
    {EventLine("message_start"), EventLine("completion"), DataLine(EmptyJSON),
     BlankLine, OtherLine}

Bodies_Lines == UNION {[1..n -> SampleLines] : n \in 0..MaxLines}

InitLines ==
    /\ InitCall
    /\ fn
    /\ live = FALSE
    /\ stream \in Bodies_Lines
    /\ client = NewClient
    /\ currentEvent = ZeroEvent
    /\ dispatched = <<>>
    /\ toolCalls = Nil
    /\ calls = <<>>
    /\ messages = <<>>
    /\ request = Nil
    /\ responseBody = Nil
    /\ streamOut = Nil

unchangedLine ==
    UNCHANGED <<pc, bodyClosed, result, exit, anthropicResponse, streamingParts,
                currentTextBuilder, currentToolCall, responseID, seenStart, ncalls,
                lastCall, refused, notified, lastFrame, dispatched>>

\* scanner.Scan() delivers a line (lines 697-732).
ScanLine ==
    /\ pc = "scan"
    /\ ~Cancelled
    /\ pos < Len(stream)
    /\ \E ret \in BOOLEAN :
          LET line == stream[pos + 1]
          IN  /\ pos' = pos + 1
              /\ UNCHANGED <<fn, live, stream, ctxDone, message, client, toolCalls,
                             calls, messages, request, responseBody, streamOut>>
              /\ CASE line.kind = "event" ->
                        /\ currentEvent' = [currentEvent EXCEPT !.Event = line.name]
                        /\ unchangedLine
                   [] line.kind = "data" ->
                        /\ currentEvent' = [currentEvent EXCEPT !.Data = line.data]
                        /\ unchangedLine
                   [] line.kind = "blank" /\ ~Dispatched(currentEvent) ->
                        /\ currentEvent' = ResetEvent(currentEvent)
                        /\ unchangedLine
                   [] line.kind = "blank" /\ Dispatched(currentEvent) ->
                        LET out == processStreamEvent(currentEvent, fn, locals, ret)
                        IN  /\ dispatched' = Append(dispatched, currentEvent)
                            /\ lastFrame' = currentEvent
                            /\ Store(out.st)
                            /\ Record(out.call)
                            /\ seenStart' = (seenStart \/ (currentEvent.Event = "message_start"
                                                            /\ out.err = Nil))
                            /\ IF out.err # Nil
                               THEN /\ Return(Returned(Nil, out.err), "failed")
                                    /\ UNCHANGED currentEvent
                               ELSE IF ~out.shouldContinue
                               THEN /\ Return(AfterLoop(out.st), "break")
                                    /\ UNCHANGED currentEvent
                               ELSE /\ UNCHANGED <<pc, bodyClosed, result, exit>>
                                    /\ currentEvent' = ResetEvent(currentEvent)
                   [] OTHER ->
                        /\ UNCHANGED currentEvent
                        /\ unchangedLine

NextLines ==
    \/ OpenStream
    \/ ScanLine
    \/ ScanEOF

SpecLines == InitLines /\ [][NextLines]_vars

(***************************************************************************)
(* The OpenAI GenerateStream (src/openai/client.go, lines 186-286).  The   *)
(* SDK yields chunks; the text of the first choice of a chunk is appended  *)
(* to out as a part of its own and handed to the callback; the tool-call   *)
(* deltas are gathered in the map toolCalls, keyed by id, and appended to  *)
(* out when the stream has ended, in the order in which range visits the   *)
(* map, which Go leaves unspecified.  stream is the sequence of chunks.    *)
(***************************************************************************)
ToolCallDelta(id, type, name, arguments) ==
    [ID |-> id, Type |-> type, Function |-> [Name |-> name, Arguments |-> arguments]]

Chunk(id, choices) == [ID |-> id, Choices |-> choices]
Choice(content, deltas) == [Delta |-> [Content |-> content, ToolCalls |-> deltas]]

SampleChunks ==
    {Chunk(<<"c", "1">>, <<>>),
     Chunk(<<"c", "1">>, <<Choice(<<"a">>, <<>>)>>),
     Chunk(<<>>, <<Choice(<<>>, <<ToolCallDelta(<<"t", "1">>, "function", <<"f">>, <<"{">>)>>)>>),
     Chunk(<<>>, <<Choice(<<>>, <<ToolCallDelta(<<"t", "1">>, "function", <<>>, <<"}">>)>>)>>),
     Chunk(<<>>, <<Choice(<<>>, <<ToolCallDelta(<<"t", "2">>, "function", <<"g">>, EmptyObject)>>)>>),
     Chunk(<<>>, <<Choice(<<>>, <<ToolCallDelta(<<>>, "", <<>>, <<"}">>)>>)>>)}

ChunkStreams == UNION {[1..n -> SampleChunks] : n \in 0..MaxChunks}

\* out as GenerateStream makes it (lines 218-224).
OpenAIResponse ==
    [ID |-> <<>>, Message |-> [Role |-> RoleAssistant, Parts |-> <<>>],
     Provider |-> "openai", Raw |-> Nil]

RECURSIVE GatherToolCalls(_, _)
\* The loop over delta.ToolCalls (lines 256-271): the map after the deltas.
GatherToolCalls(map, deltas) ==
    IF deltas = <<>>
    THEN map
    ELSE LET toolCall == Head(deltas)
             id == toolCall.ID
             next ==
                 IF toolCall.Type # "function"
                 THEN map
                 ELSE IF id \in DOMAIN map
                 THEN [map EXCEPT ![id].Input = @ \o toolCall.Function.Arguments]
                 ELSE [k \in DOMAIN map \cup {id} |->
                          IF k = id
                          THEN ToolCallPart(id, toolCall.Function.Name,
                                            toolCall.Function.Arguments)
                          ELSE map[k]]
         IN  GatherToolCalls(next, Tail(deltas))

\* The orders in which range may visit the keys of a map (line 281).
RangeOrders(map) ==
    {order \in [1..Cardinality(DOMAIN map) -> DOMAIN map] :
        \A i, j \in DOMAIN order : i # j => order[i] # order[j]}

InitOpenAI ==
    /\ InitCall
    /\ live = FALSE
    /\ stream \in ChunkStreams
    /\ client = NewClient
    /\ currentEvent = Nil
    /\ dispatched = <<>>
    /\ toolCalls = Nil
    /\ calls = <<>>
    /\ messages = <<>>
    /\ request = Nil
    /\ responseBody = Nil
    /\ streamOut = Nil

unchangedOpenAI ==
    UNCHANGED <<fn, live, stream, ctxDone, anthropicResponse, streamingParts,
                currentTextBuilder, currentToolCall, responseID, message, seenStart,
                client, currentEvent, dispatched, calls, messages, request,
                responseBody>>

\* convertMessages or convertTools fails (lines 187-195).
OpenAIBuildFails ==
    /\ pc = "call"
    /\ pc' = "returned"
    /\ exit' = "build"
    /\ result' = Returned(Nil, Errorf("openai: unsupported message"))
    /\ UNCHANGED <<pos, bodyClosed, streamOut, toolCalls, lastFrame, ncalls, lastCall,
                   refused, notified>>
    /\ unchangedOpenAI

\* The stream is created, out and toolCalls are made (lines 215-227).
OpenAINewStreaming ==
    /\ pc = "call"
    /\ pc' = "stream"
    /\ streamOut' = OpenAIResponse
    /\ toolCalls' = <<>>
    /\ UNCHANGED <<pos, bodyClosed, result, exit, lastFrame, ncalls, lastCall, refused,
                   notified>>
    /\ unchangedOpenAI

\* stream.Next() delivers a chunk (lines 229-275).  The callback is invoked
\* for a chunk with text, without a nil test; the deferred stream.Close()
\* runs when the call returns.
OpenAINext ==
    /\ pc = "stream"
    /\ pos < Len(stream)
    /\ \E ret \in BOOLEAN :
          LET chunk == stream[pos + 1]
              out1 == IF chunk.ID # <<>> /\ streamOut.ID = <<>>
                      THEN [streamOut EXCEPT !.ID = chunk.ID]
                      ELSE streamOut
          IN  /\ pos' = pos + 1
              /\ lastFrame' = chunk
              /\ unchangedOpenAI
              /\ IF Len(chunk.Choices) = 0
                 THEN /\ streamOut' = out1
                      /\ UNCHANGED <<pc, exit, result, bodyClosed, toolCalls, ncalls,
                                     lastCall, refused, notified>>
                 ELSE LET delta == chunk.Choices[1].Delta
                          hasText == delta.Content # <<>>
                          out2 == IF hasText
                                  THEN [out1 EXCEPT !.Message.Parts =
                                                        Append(@, TextPart(delta.Content))]
                                  ELSE out1
                      IN  IF hasText /\ ~fn
                          THEN /\ pc' = "panicked"
                               /\ exit' = "panic"
                               /\ streamOut' = out2
                               /\ bodyClosed' = TRUE
                               /\ UNCHANGED <<result, toolCalls, ncalls, lastCall,
                                              refused, notified>>
                          ELSE IF hasText /\ ~ret
                          THEN /\ Record(Invocation("snapshot", out2, Nil, ret))
                               /\ pc' = "returned"
                               /\ exit' = "break"
                               /\ streamOut' = out2
                               /\ result' = Returned(out2, Nil)
                               /\ bodyClosed' = TRUE
                               /\ UNCHANGED toolCalls
                          ELSE /\ IF hasText
                                  THEN Record(Invocation("snapshot", out2, Nil, ret))
                                  ELSE UNCHANGED <<ncalls, lastCall, refused, notified>>
                               /\ toolCalls' = GatherToolCalls(toolCalls, delta.ToolCalls)
                               /\ streamOut' = [out2 EXCEPT !.Raw = [ptr |-> "chunk"]]
                               /\ UNCHANGED <<pc, exit, result, bodyClosed>>

\* stream.Err() reports an error (lines 277-279): out comes with the error.
OpenAIStreamFails ==
    /\ pc = "stream"
    /\ pc' = "returned"
    /\ exit' = "read"
    /\ bodyClosed' = TRUE
    /\ result' = Returned(streamOut, Wrap("openai: streaming error", Errorf("stream error")))
    /\ UNCHANGED <<pos, streamOut, toolCalls, lastFrame, ncalls, lastCall, refused,
                   notified>>
    /\ unchangedOpenAI

\* The stream has ended: the tool calls of the map are appended to out
\* (lines 281-285).
OpenAIStreamEnds ==
    /\ pc = "stream"
    /\ pos = Len(stream)
    /\ \E order \in RangeOrders(toolCalls) :
          LET parts == [i \in 1..Len(order) |-> toolCalls[order[i]]]
              out == [streamOut EXCEPT !.Message.Parts = @ \o parts]
          IN  /\ streamOut' = out
              /\ result' = Returned(out, Nil)
    /\ pc' = "returned"
    /\ exit' = "eof"
    /\ bodyClosed' = TRUE
    /\ UNCHANGED <<pos, toolCalls, lastFrame, ncalls, lastCall, refused, notified>>
    /\ unchangedOpenAI

NextOpenAI ==
    \/ OpenAIBuildFails
    \/ OpenAINewStreaming
    \/ OpenAINext
    \/ OpenAIStreamFails
    \/ OpenAIStreamEnds

SpecOpenAI == InitOpenAI /\ [][NextOpenAI]_vars

(***************************************************************************)
(* Properties of the streaming call.                                       *)
(***************************************************************************)
KnownEvents ==
    {"message_start", "content_block_start", "content_block_delta",
     "content_block_stop", "message_delta", "message_stop", "ping", "error"}

ParseError(err) == Wrap("anthropic: failed to parse stream", err)
NoMessageReceived == ParseError(Errorf("no message received in stream"))

\* This step scanned a frame and handed it to processStreamEvent.
DispatchedNow == pos' = pos + 1 /\ Dispatched(lastFrame')

\* This step invoked the callback.
InvokedNow == ncalls' = ncalls + 1

\* This step invoked the callback with a text-delta snapshot and got false.
CancelledNow == InvokedNow /\ lastCall'.kind = "snapshot" /\ ~lastCall'.ret

\* The text fragments and the JSON fragments of a response body, in
\* arrival order.
DeltaTexts(frames) ==
    Concat([i \in 1..Len(frames) |->
               IF /\ frames[i].Event = "content_block_delta"
                  /\ frames[i].Data.delta.type = "text_delta"
               THEN frames[i].Data.delta.text ELSE <<>>])

DeltaJSON(frames) ==
    Concat([i \in 1..Len(frames) |->
               IF /\ frames[i].Event = "content_block_delta"
                  /\ frames[i].Data.delta.type = "input_json_delta"
               THEN frames[i].Data.delta.partial_json ELSE <<>>])

\* The call read the whole scripted body and nobody cancelled it.
ReadToEnd == pc = "returned" /\ ~live /\ exit = "eof"

\* C1 as claimed: a stream of one text block yields a final Response whose
\* parts are exactly one TextPart holding the concatenation of the delta
\* texts in arrival order.
C1_ExactlyOneTextPart ==
    (ReadToEnd /\ stream \in TextStreams) =>
        /\ result.err = Nil
        /\ result.response # Nil
        /\ result.response.Message.Parts = <<TextPart(DeltaTexts(stream))>>

\* C1 amended: the final Response holds exactly one TextPart with the
\* concatenation of the delta texts in arrival order when that concatenation
\* is not empty, and no part at all when it is empty; so the result depends
\* on the concatenation only, not on the fragment boundaries.
C1_TextIsConcatenation ==
    (ReadToEnd /\ stream \in TextStreams) =>
        /\ result.err = Nil
        /\ result.response # Nil
        /\ result.response.Message.Parts =
              IF DeltaTexts(stream) = <<>>
              THEN <<>>
              ELSE <<TextPart(DeltaTexts(stream))>>

C1_Witness ==
    /\ ReadToEnd
    /\ stream \in TextStreams
    /\ Len(stream) = 7
    /\ stream[3].Data.delta.text = <<"a">>
    /\ stream[4].Data.delta.text = <<>>
    /\ stream[5].Data.delta.text = <<"b">>
    /\ result.response.Message.Parts = <<TextPart(<<"a", "b">>)>>

\* C2: a stream of one tool_use block yields one ToolCallPart with the id
\* and the name of the block start and an Input equal to the concatenation
\* of the JSON fragments, that is, to the JSON document that was split.
C2_InputIsConcatenation ==
    (ReadToEnd /\ stream \in ToolStreams) =>
        /\ result.err = Nil
        /\ result.response # Nil
        /\ result.response.Message.Parts =
              <<ToolCallPart(ToolUse.id, ToolUse.name, DeltaJSON(stream))>>
        /\ DeltaJSON(stream) \in JSONDocuments

C4_ReturnsLastSnapshot ==
    (pc = "returned" /\ exit = "break" /\ seenStart) =>
        /\ result.response # Nil
        /\ result.response.ID = lastCall.response.ID
        /\ result.response.Message.Parts = lastCall.response.Message.Parts

C6_ExactlyOneNotification ==
    (pc = "returned" /\ fn /\ pos > 0 /\ ~refused /\ ~ctxDone) => notified = 1

\* C6 amended: the callback gets one final notification (finalized parts, nil
\* error) for each message_stop dispatched and one error notification (nil
\* Response, the stream error) for a decodable error event dispatched, and no
\* other invocation besides the text-delta snapshots.
C6_NotificationPerTerminalEvent ==
    [][LET terminal ==
               /\ fn
               /\ DispatchedNow
               /\ \/ lastFrame'.Event = "message_stop"
                  \/ lastFrame'.Event = "error" /\ lastFrame'.Data.raw = "json"
       IN  /\ notified' = notified + (IF terminal THEN 1 ELSE 0)
           /\ terminal =>
                 /\ InvokedNow
                 /\ IF lastFrame'.Event = "message_stop"
                    THEN /\ lastCall'.response # Nil
                         /\ lastCall'.response.Message.Parts = streamingParts'
                         /\ lastCall'.err = Nil
                    ELSE /\ lastCall'.response = Nil
                         /\ lastCall'.err # Nil
           /\ (InvokedNow /\ ~terminal) => lastCall'.kind = "snapshot"]_vars

C6_Witness ==
    /\ pc = "returned"
    /\ fn
    /\ exit = "eof"
    /\ lastFrame # Nil
    /\ ~refused
    /\ notified = 1
    /\ ncalls = 2
    /\ lastFrame.Event = "message_stop"
    /\ result.err = Nil

\* C7: a decodable error event makes the call return in the step that
\* dispatches it, with a nil Response and the stream error, after exactly one
\* callback invocation (nil Response, that error) if a callback is
\* registered and none otherwise, whatever the callback returns; nothing
\* happens after the return.
C7_ErrorEventFails ==
    [][/\ pc # "returned"
       /\ (DispatchedNow /\ lastFrame'.Event = "error" /\ lastFrame'.Data.raw = "json") =>
             LET err == StreamError(lastFrame'.Data.error.message)
             IN  /\ pc' = "returned"
                 /\ result' = Returned(Nil, ParseError(err))
                 /\ IF fn
                    THEN /\ InvokedNow
                         /\ lastCall'.response = Nil
                         /\ lastCall'.err = err
                    ELSE ncalls' = ncalls]_vars

C7_Witness ==
    /\ pc = "returned"
    /\ lastFrame # Nil
    /\ lastFrame.Event = "error"
    /\ lastFrame.Data.raw = "json"
    /\ lastCall # Nil
    /\ lastCall.kind = "error"
    /\ lastCall.ret
    /\ ncalls = 2
    /\ streamingParts # <<>>
    /\ result.response = Nil

\* C8: a dispatched frame of an unknown event type makes the call return in
\* that step with a nil Response and the "unknown stream event type" error,
\* without invoking the callback; nothing happens after the return.
C8_UnknownEventFails ==
    [][/\ pc # "returned"
       /\ (DispatchedNow /\ lastFrame'.Event \notin KnownEvents) =>
             /\ pc' = "returned"
             /\ result'.response = Nil
             /\ result'.err # Nil
             /\ result'.err = ParseError([error |-> "unknown stream event type",
                                          event |-> lastFrame'.Event])
             /\ ncalls' = ncalls]_vars

C8_Witness ==
    /\ pc = "returned"
    /\ lastFrame # Nil
    /\ Dispatched(lastFrame)
    /\ lastFrame.Event \notin KnownEvents
    /\ seenStart
    /\ streamingParts # <<>>
    /\ ncalls > 0
    /\ result.response = Nil

\* C9: when the loop is left at the end of the stream (or by a callback
\* cancellation) and no message_start was dispatched, the call returns the
\* "no message received" error and no Response.
C9_NoMessageReceived ==
    (pc = "returned" /\ exit \in {"eof", "break"} /\ ~seenStart) =>
        result = Returned(Nil, NoMessageReceived)

C9_Witness ==
    /\ pc = "returned"
    /\ exit = "eof"
    /\ ~seenStart
    /\ streamingParts # <<>>
    /\ ncalls > 0
    /\ result.response = Nil

\* C10: whenever GenerateStream returns a non-nil error, it returns no
\* partial Response with it: the Response is nil or has no parts.
C10_NoPartialResponseWithError ==
    (pc = "returned" /\ result.err # Nil) =>
        \/ result.response = Nil
        \/ result.response.Message.Parts = <<>>

\* C11 as claimed: a call whose context was cancelled while the stream was
\* being read returns the cancellation as its error, and no Response.
C11_CancellationReturned ==
    (pc = "returned" /\ ctxDone) =>
        result = Returned(Nil, ParseError(Errorf("context canceled")))

\* C11 amended: once the context is cancelled no frame is dispatched, the
\* callback is not invoked and the accumulation state does not change; the
\* call returns the cancellation, with no Response, when a further line is
\* scanned, and returns as an uncancelled call does when the body ends or the
\* read fails before any further line.
C11_CancellationAtNextLine ==
    [][(ctxDone /\ pc = "scan") =>
          /\ pos' = pos
          /\ ncalls' = ncalls
          /\ lastFrame' = lastFrame
          /\ locals' = locals
          /\ pc' = "returned" =>
                /\ exit' \in {"ctx", "eof", "read"}
                /\ exit' = "ctx" =>
                      result' = Returned(Nil, ParseError(Errorf("context canceled")))
                /\ exit' = "eof" => result' = GenerateStreamReturn(AfterLoop(locals))]_vars

C11_Witness ==
    /\ pc = "returned"
    /\ exit = "ctx"
    /\ ctxDone
    /\ ncalls > 0
    /\ streamingParts # <<>>
    /\ result = Returned(Nil, ParseError(Errorf("context canceled")))

\* C12: a call that obtained a response byte stream (it read an event from
\* it, or saw its status) has closed it when it returns, whatever the exit
\* path.
C12_StreamClosedOnReturn ==
    (pc = "returned" /\ (pos > 0 \/ exit = "status")) => bodyClosed

\* C13: under every interleaving of two calls on one client, each call
\* returns what it returns when it runs alone on its stream with its callback,
\* each request is built from the fields the client was constructed with, and
\* no step changes the client.
C13_CallsDoNotInterfere ==
    /\ [](\A c \in CallIds :
             /\ calls[c].pc = "returned" =>
                    calls[c].result =
                        RunAlone(calls[c].stream, calls[c].stopAt, 1, 0, NewLocals)
             /\ calls[c].request # Nil =>
                    calls[c].request = buildRequest(NewClient, TRUE))
    /\ [][client' = client]_vars

C13_Witness ==
    /\ calls[1].pc = "returned"
    /\ calls[2].pc = "returned"
    /\ calls[1].result.response # Nil
    /\ calls[2].result.response # Nil
    /\ calls[1].result.response.Message.Parts = <<TextPart(<<"a", "b">>)>>
    /\ calls[2].result.response.Message.Parts =
          <<ToolCallPart(ToolUse.id, ToolUse.name, <<"{", "}">>)>>
    /\ calls[1].ncalls = 3
    /\ calls[2].ncalls = 1

\* C14: after an invocation of the callback has returned false, no further
\* chunk is consumed and the callback is not invoked again.
C14_RefusalStopsChunks ==
    [][refused => (pos' = pos /\ ncalls' = ncalls)]_vars

\* C15: when convertMessages succeeds, the system prompt is exactly the text
\* parts of all system messages in their original order, and the wire list
\* has one entry per non-system message and none for a system message.
C15_SystemExtracted ==
    (Converted /\ request.err = Nil) =>
        /\ request.system = [i \in 1..Len(SystemTexts(messages)) |->
                                RequestTextBlock(SystemTexts(messages)[i])]
        /\ Len(request.messages) = Len(NonSystem(messages))
        /\ \A i \in 1..Len(request.messages) :
              request.messages[i].role \in {"user", "assistant"}

C15_Witness ==
    /\ Converted
    /\ exit = "sse"
    /\ messages = <<Message(RoleSystem, <<TextPart(<<"a">>)>>),
                    Message(RoleSystem, <<TextPart(<<"b">>)>>),
                    Message(RoleUser, <<TextPart(<<"a">>)>>)>>
    /\ request.err = Nil
    /\ request.system = <<RequestTextBlock(<<"a">>), RequestTextBlock(<<"b">>)>>
    /\ Len(request.messages) = 1

\* C16: when convertMessages succeeds, the i-th wire message stands for the
\* i-th non-system message: its role is user or assistant as that message's
\* role is User or Assistant, and its content blocks stand for the parts of
\* that message, one for one and in order; a conversation with a message of
\* any other role fails the conversion.
C16_OneToOneInOrder ==
    Converted =>
        /\ request.err = Nil =>
              /\ Len(request.messages) = Len(NonSystem(messages))
              /\ \A i \in 1..Len(request.messages) :
                    LET msg == NonSystem(messages)[i]
                        wire == request.messages[i]
                    IN  /\ msg.Role = RoleUser => wire.role = "user"
                        /\ msg.Role = RoleAssistant => wire.role = "assistant"
                        /\ Len(wire.content) = Len(msg.Parts)
                        /\ \A j \in 1..Len(msg.Parts) :
                              Corresponds(msg.Parts[j], wire.content[j])
        /\ (\E i \in 1..Len(messages) :
                messages[i].Role \notin {RoleSystem, RoleUser, RoleAssistant}) =>
              request.err # Nil

C16_Witness ==
    /\ Converted
    /\ request.err = Nil
    /\ Len(messages) = 3
    /\ messages[1].Role = RoleAssistant
    /\ Len(messages[1].Parts) = 2
    /\ messages[2].Role = RoleSystem
    /\ messages[3].Role = RoleUser
    /\ Len(messages[3].Parts) = 2
    /\ Len(request.messages) = 2
    /\ request.messages[1].role = "assistant"
    /\ request.messages[2].content[1].type = "tool_result"

\* C17: a conversation in which some system message holds a part that is not
\* a TextPart fails the conversion, wherever that message stands, and the
\* failed conversion returns no wire messages.
C17_SystemMustBeText ==
    (pc = "returned" /\ exit \in {"sse", "sdk", "openai"} /\ HasBadSystem(messages)) =>
        /\ request.err # Nil
        /\ request.messages = Nil

C17_Witness ==
    /\ Converted
    /\ Len(messages) = 3
    /\ messages[1].Role = RoleUser
    /\ messages[2].Role = RoleSystem
    /\ ~HasBadSystem(SubSeq(messages, 1, 2))
    /\ messages[3].Role = RoleSystem
    /\ Len(messages[3].Parts) = 2
    /\ messages[3].Parts[2].part = "ToolCallPart"
    /\ request.err # Nil
    /\ request.messages = Nil

\* C18: every ToolResultPart is converted to a tool-result block that names
\* the part's tool call id, carries the part's result, and has its error
\* flag set exactly when the part's Error is not nil.
C18_ToolResultBlock ==
    (Converted /\ request.err = Nil) =>
        \A i \in 1..Len(request.messages) :
            LET msg == NonSystem(messages)[i]
                wire == request.messages[i]
            IN  \A j \in 1..Len(msg.Parts) :
                    msg.Parts[j].part = "ToolResultPart" =>
                        /\ wire.content[j].type = "tool_result"
                        /\ wire.content[j].tool_use_id = msg.Parts[j].ToolCallID
                        /\ wire.content[j].content =
                              IF exit = "sse"
                              THEN msg.Parts[j].Result
                              ELSE <<RequestTextBlock(msg.Parts[j].Result)>>
                        /\ (wire.content[j].is_error # Nil) <=> (msg.Parts[j].Error # Nil)

\* C19: when the decoded response holds a block that is neither text nor
\* tool_use, Generate returns a Response with a part for every text and
\* tool_use block, in order, together with a non-nil error.
C19_SoftErrorWithResponse ==
    (pc = "returned" /\ exit = "decoded"
        /\ \E i \in 1..Len(responseBody.Content) : ~Supported(responseBody.Content[i])) =>
        /\ result.err # Nil
        /\ result.response # Nil
        /\ result.response.Message.Parts =
              LET supported == SelectSeq(responseBody.Content, Supported)
              IN  [i \in 1..Len(supported) |-> PartOf(supported[i])]

\* C20 as claimed: the decoder returns no error for a content array, and the
\* decoded content holds the elements with a recognized type tag, all of
\* them and in their original order.
C20_KeepsRecognized ==
    ContentDecoded =>
        /\ exit = "decoded"
        /\ responseBody.Content =
              [i \in 1..Len(RecognizedElements(stream.content.elements)) |->
                  ResponseBlock(RecognizedElements(stream.content.elements)[i])]

\* C20 amended: the decoder returns no error for a content array; the decoded
\* content holds, in their original order, the elements that have a
\* recognized type tag and whose fields decode, and nothing else: an element
\* of an unknown type, one that is not an object and one of a recognized type
\* that does not decode are all dropped without an error.
C20_DropsWhatItCannotDecode ==
    ContentDecoded =>
        LET decodable == SelectSeq(RecognizedElements(stream.content.elements),
                                   LAMBDA raw : raw.valid)
        IN  /\ exit = "decoded"
            /\ responseBody.Content =
                  [i \in 1..Len(decodable) |-> ResponseBlock(decodable[i])]
            /\ \A i \in 1..Len(responseBody.Content) :
                  responseBody.Content[i].Type \in RecognizedTypes

C20_Witness ==
    /\ ContentDecoded
    /\ stream.content.elements =
          <<TextElement(<<"b">>), FutureElement, TextElement(<<"a">>)>>
    /\ exit = "decoded"
    /\ responseBody.Content =
          <<ResponseBlock(TextElement(<<"b">>)), ResponseBlock(TextElement(<<"a">>))>>
    /\ result.err = Nil

(***************************************************************************)
(* Properties of convertTools.                                             *)
(***************************************************************************)
\* C21: convertTools on a nil or empty tool list returns an empty list and no
\* error; on a list of tools whose schemas it accepts (nil, or with a map as
\* "properties") it returns no error and one wire tool per input tool, in
\* input order, the i-th with the name of the i-th input tool, tools that
\* share a name included.
C21_OneWireToolPerTool ==
    (pc = "returned" /\ exit = "tools") =>
        LET tools == client.Tools
        IN  /\ (\A i \in 1..Len(tools) : ValidSchema(tools[i])) =>
                  /\ request.err = Nil
                  /\ Len(request.tools) = Len(tools)
                  /\ \A i \in 1..Len(tools) : request.tools[i].name = tools[i].Name
            /\ tools = <<>> => (request.err = Nil /\ request.tools = <<>>)

\* C21 witness: three tools with accepted schemas, two of them named f, were
\* converted to three wire tools.
C21_Witness ==
    /\ pc = "returned"
    /\ exit = "tools"
    /\ Len(client.Tools) = 3
    /\ client.Tools[1].Name = <<"f">>
    /\ client.Tools[2].Name = <<"g">>
    /\ client.Tools[3].Name = <<"f">>
    /\ client.Tools[1].Schema # Nil
    /\ client.Tools[3].Schema = Nil
    /\ request.err = Nil
    /\ Len(request.tools) = 3
    /\ request.tools[3].input_schema = ZeroInputSchema

(***************************************************************************)
(* Properties of the accumulators and of the finalized parts.              *)
(***************************************************************************)
IsPrefix(s, t) == Len(s) <= Len(t) /\ SubSeq(t, 1, Len(s)) = s

\* This step dispatched a content_block_stop whose data decodes.
StopNow ==
    /\ DispatchedNow
    /\ lastFrame'.Event = "content_block_stop"
    /\ ~UnmarshalFails(lastFrame'.Data)

\* C22: at every point of a streaming call at most one accumulator is open:
\* the text buffer is empty whenever a tool-call accumulator exists.
C22_OneAccumulatorOpen == ~(Len(currentTextBuilder) > 0 /\ currentToolCall # Nil)

\* C23: every content_block_stop appends exactly one part to the finalized
\* parts, never two and never none.
C23_StopAppendsOnePart ==
    [][StopNow => Len(streamingParts') = Len(streamingParts) + 1]_vars

\* C24: the finalized parts are append-only: every step leaves the parts it
\* found as a prefix of the parts it leaves, only a content_block_stop
\* extends them, and a Response the call returns holds them as they are, so
\* in the order in which the blocks were closed.
C24_AppendOnly ==
    [][/\ IsPrefix(streamingParts, streamingParts')
       /\ streamingParts' # streamingParts => StopNow
       /\ (pc = "scan" /\ pc' = "returned" /\ result'.response # Nil) =>
             result'.response.Message.Parts = streamingParts']_vars

\* C24 witness: a text block and then a tool_use block were closed, and the
\* call returned the two parts in that order.
C24_Witness ==
    /\ pc = "returned"
    /\ exit = "eof"
    /\ streamingParts = <<TextPart(<<"a">>), ToolCallPart(<<"t", "1">>, <<"f">>, EmptyObject)>>
    /\ result.response # Nil
    /\ result.response.Message.Parts = streamingParts

(***************************************************************************)
(* Properties of the final notification.                                   *)
(***************************************************************************)
\* The body ended right after a message_stop was dispatched, and the callback
\* never returned false.
EndedAfterMessageStop ==
    /\ pc = "returned"
    /\ exit = "eof"
    /\ fn
    /\ ~refused
    /\ lastFrame # Nil
    /\ lastFrame.Event = "message_stop"
    /\ Dispatched(lastFrame)

\* The last invocation of the callback was the final notification: the
\* finalized parts and a nil error.
LastCallIsFinal ==
    /\ lastCall # Nil
    /\ lastCall.kind = "final"
    /\ lastCall.err = Nil
    /\ lastCall.response.ID = responseID
    /\ lastCall.response.Message.Parts = streamingParts

\* C25 as claimed: when the stream ends after message_stop and the callback
\* always returned true, the last invocation is the final notification and
\* the call returns a Response with the id and the parts of the Response
\* passed to that invocation.
C25_ReturnsWhatWasNotified ==
    EndedAfterMessageStop =>
        /\ LastCallIsFinal
        /\ result.err = Nil
        /\ result.response # Nil
        /\ result.response.ID = lastCall.response.ID
        /\ result.response.Message.Parts = lastCall.response.Message.Parts

\* C25 amended: when the stream ends right after message_stop and the
\* callback always returned true, the last invocation is the final
\* notification; message_stop leaves the loop running; and the call returns a
\* Response with the id and the parts passed to that invocation if a
\* message_start had been dispatched, and the "no message received" error
\* with no Response otherwise.
C25_ReturnsWhatWasNotifiedAfterStart ==
    /\ [](EndedAfterMessageStop =>
            /\ LastCallIsFinal
            /\ IF anthropicResponse # Nil
               THEN /\ result.err = Nil
                    /\ result.response # Nil
                    /\ result.response.ID = lastCall.response.ID
                    /\ result.response.Message.Parts = lastCall.response.Message.Parts
               ELSE result = Returned(Nil, NoMessageReceived))
    /\ [][(DispatchedNow /\ lastFrame'.Event = "message_stop") =>
             (pc' = "scan" /\ UNCHANGED <<streamingParts, currentTextBuilder,
                                         currentToolCall>>)]_vars

\* C25 witness: message_start, a text block and message_stop were read, the
\* callback was invoked for the delta and for the final notification, and the
\* call returned the part it had been notified of.
C25_Witness ==
    /\ EndedAfterMessageStop
    /\ anthropicResponse # Nil
    /\ ncalls = 2
    /\ lastCall.kind = "final"
    /\ lastCall.response.Message.Parts = <<TextPart(<<"a">>)>>
    /\ result.response # Nil
    /\ result.response.Message.Parts = <<TextPart(<<"a">>)>>

(***************************************************************************)
(* Properties of the Responses handed to the callback.                     *)
(***************************************************************************)
\* C26: a Response that was delivered to the callback is not changed by the
\* processing of later stream events: its id and its list of parts stay as
\* they were when it was delivered.
C26_DeliveredIsNotChanged ==
    [][(pc = "stream" /\ ncalls > 0) =>
          /\ GeminiDelivered'.ID = GeminiDelivered.ID
          /\ GeminiDelivered'.Message.Parts = GeminiDelivered.Message.Parts]_vars

(***************************************************************************)
(* Properties of message_delta.                                            *)
(***************************************************************************)
\* This step dispatched a message_delta whose data decodes.
MessageDeltaNow ==
    /\ DispatchedNow
    /\ lastFrame'.Event = "message_delta"
    /\ ~UnmarshalFails(lastFrame'.Data)

\* C27: a message_delta patches the working envelope field by field: the
\* stop reason, the stop sequence and the usage take the value of the delta
\* if the delta holds one and keep their value otherwise, the id is kept,
\* and the finalized parts and both accumulators are left unchanged.
C27_DeltaPatchesEnvelope ==
    [][MessageDeltaNow =>
          LET delta == lastFrame'.Data.delta
              usage == lastFrame'.Data.usage
          IN  /\ UNCHANGED <<streamingParts, currentTextBuilder, currentToolCall,
                             responseID>>
              /\ IF anthropicResponse = Nil
                 THEN anthropicResponse' = Nil
                 ELSE /\ anthropicResponse'.ID = anthropicResponse.ID
                      /\ anthropicResponse'.StopReason =
                            IF delta.stop_reason # Nil
                            THEN delta.stop_reason
                            ELSE anthropicResponse.StopReason
                      /\ anthropicResponse'.StopSequence =
                            IF delta.stop_sequence # Nil
                            THEN delta.stop_sequence
                            ELSE anthropicResponse.StopSequence
                      /\ anthropicResponse'.Usage =
                            IF usage # Nil THEN usage.value ELSE anthropicResponse.Usage]_vars

\* C27 witness: after message_start, a delta with a stop reason and a delta
\* with a stop sequence and a usage, the envelope holds all three, and the
\* text buffer is as the delta before them left it.
C27_Witness ==
    /\ pc = "scan"
    /\ lastFrame = MessageDelta(Nil, Ptr("stop"), Ptr(DeltaUsage))
    /\ anthropicResponse # Nil
    /\ anthropicResponse.StopReason = Ptr("end_turn")
    /\ anthropicResponse.StopSequence = Ptr("stop")
    /\ anthropicResponse.Usage = DeltaUsage
    /\ currentTextBuilder = <<"a">>

(***************************************************************************)
(* Properties of the line reader.                                          *)
(***************************************************************************)
Largest(S) == CHOOSE k \in S : \A j \in S : j <= k

\* The field of the given kind that the lines lo..hi leave in the event
\* buffer: that of the last such line, the zero value if there is none.
FieldOf(lines, lo, hi, kind, zero) ==
    LET at == {k \in lo..hi : lines[k].kind = kind}
    IN  IF at = {}
        THEN zero
        ELSE IF kind = "event" THEN lines[Largest(at)].name ELSE lines[Largest(at)].data

\* The frame made of the lines between the last blank line before line j
\* and line j.
FrameBefore(lines, j) ==
    LET lo == Largest({0} \cup {k \in 1..(j - 1) : lines[k].kind = "blank"}) + 1
    IN  StreamEvent(FieldOf(lines, lo, j - 1, "event", ""),
                    FieldOf(lines, lo, j - 1, "data", NoData))

FramesAt(lines, ends) ==
    LET at == SelectSeq([j \in 1..(Len(lines) + 1) |-> j], LAMBDA j : j \in ends)
    IN  [k \in 1..Len(at) |-> FrameBefore(lines, at[k])]

\* Every frame of the body that holds an event name and data: the lines up
\* to a blank line or up to the end of the body.
AllFrames(lines) ==
    FramesAt(lines, {j \in 1..(Len(lines) + 1) :
                        /\ j = Len(lines) + 1 \/ lines[j].kind = "blank"
                        /\ Dispatched(FrameBefore(lines, j))})

\* The frames that hold an event name and data and are closed by a blank line.
FlushedFrames(lines) ==
    FramesAt(lines, {j \in 1..Len(lines) :
                        /\ lines[j].kind = "blank"
                        /\ Dispatched(FrameBefore(lines, j))})

\* C28 as claimed: a call that reads the body to its end has dispatched every
\* event frame of the body (an event: line and a data: line), once and in
\* stream order.
C28_EveryFrameDispatched ==
    (pc = "returned" /\ exit = "eof") => dispatched = AllFrames(stream)

\* C28 amended: at every point of the call the events dispatched so far are,
\* once each and in stream order, the frames of the lines read so far that
\* hold both an event name and data and are closed by a blank line; the
\* event buffer holds the fields of the lines read since the last blank line
\* and nothing of an earlier frame, and a line that matches neither prefix
\* changes nothing.
C28_FlushedFramesDispatched ==
    /\ [](pc \in {"scan", "returned"} =>
            dispatched = FlushedFrames(SubSeq(stream, 1, pos)))
    /\ [](pc = "scan" => currentEvent = FrameBefore(stream, pos + 1))
    /\ [][(pc = "scan" /\ pos' = pos + 1 /\ stream[pos'].kind = "other") =>
             UNCHANGED <<pc, currentEvent, dispatched, anthropicResponse,
                         streamingParts, currentTextBuilder, currentToolCall,
                         responseID, ncalls>>]_vars

\* C28 witness: two frames, each closed by a blank line, were dispatched in
\* the order of the body, and the second one ended the call.
C28_Witness ==
    /\ pc = "returned"
    /\ stream = <<EventLine("message_start"), DataLine(EmptyJSON), BlankLine,
                  EventLine("completion"), DataLine(EmptyJSON), BlankLine>>
    /\ dispatched = <<StreamEvent("message_start", EmptyJSON),
                      StreamEvent("completion", EmptyJSON)>>
    /\ exit = "failed"

(***************************************************************************)
(* Properties of a call without a callback.                                *)
(***************************************************************************)
\* C29: a GenerateStream call with a nil callback never attempts to invoke
\* it: the call does not panic, it returns.
C29_NilCallbackNotInvoked == ~fn => pc # "panicked"

(***************************************************************************)
(* Properties of the OpenAI stream.                                        *)
(***************************************************************************)
RECURSIVE FunctionDeltas(_)
\* The tool-call deltas of type function of the chunks, in arrival order.
FunctionDeltas(chunks) ==
    IF chunks = <<>>
    THEN <<>>
    ELSE LET chunk == Head(chunks)
             deltas == IF Len(chunk.Choices) = 0
                       THEN <<>>
                       ELSE chunk.Choices[1].Delta.ToolCalls
         IN  SelectSeq(deltas, LAMBDA toolCall : toolCall.Type = "function")
                 \o FunctionDeltas(Tail(chunks))

RECURSIVE FirstAppearances(_)
\* The ids of the deltas in the order in which each appears first.
FirstAppearances(deltas) ==
    IF deltas = <<>>
    THEN <<>>
    ELSE LET n == Len(deltas)
             before == FirstAppearances(SubSeq(deltas, 1, n - 1))
         IN  IF \E i \in 1..Len(before) : before[i] = deltas[n].ID
             THEN before
             ELSE Append(before, deltas[n].ID)

\* The tool call of an id: the name of its first delta and the concatenation
\* of the argument fragments of its deltas.
ToolCallOf(deltas, id) ==
    LET own == SelectSeq(deltas, LAMBDA toolCall : toolCall.ID = id)
    IN  ToolCallPart(id, own[1].Function.Name,
                     Concat([i \in 1..Len(own) |-> own[i].Function.Arguments]))

\* The text parts of the chunks, in arrival order.
TextPartsOf(chunks) ==
    LET withText == SelectSeq(chunks, LAMBDA chunk :
                        Len(chunk.Choices) > 0 /\ chunk.Choices[1].Delta.Content # <<>>)
    IN  [i \in 1..Len(withText) |-> TextPart(withText[i].Choices[1].Delta.Content)]

\* C30: the parts of the Response that GenerateStream returns at the end of
\* the stream are a function of the chunk sequence: the text parts, then the
\* tool calls in the order in which their ids first appeared, each with the
\* concatenation of its argument fragments.
C30_ToolCallsInArrivalOrder ==
    (pc = "returned" /\ exit = "eof") =>
        LET deltas == FunctionDeltas(stream)
            ids == FirstAppearances(deltas)
        IN  result.response.Message.Parts =
                TextPartsOf(stream) \o [i \in 1..Len(ids) |-> ToolCallOf(deltas, ids[i])]

====
